---- MODULE Spec2Model ----
(***************************************************************************)
(* A model of the monkey-rust interpreter: the Pratt parser of             *)
(* src/src/parser.rs over a token stream and the tree-walking evaluator of *)
(* src/src/evaluator.rs over environments (src/src/environment.rs) and     *)
(* runtime values (src/src/object.rs).                                     *)
(*                                                                         *)
(* Text (identifier names, integer literals, operator literals) is a       *)
(* sequence of one-character strings, so that literal conversion is        *)
(* computed digit by digit.  Formatted messages are sequences whose first  *)
(* element is the fixed part of the format string.                         *)
(*                                                                         *)
(* A Rust panic (index out of range, unreachable!, arithmetic fault) is    *)
(* the pseudo-value [kind |-> "Panic"], which every caller passes on       *)
(* unchanged: the unwinding of the stack.                                  *)
(***************************************************************************)
EXTENDS Integers, Sequences, FiniteSets, TLC

VARIABLES
    pc,               \* "source" | "lexed" | "parsed" | "parse_error" | "done"
    source,           \* the text handed to Lexer::new
    tokens,           \* the token stream the lexer hands to the parser
    program,          \* the Program parsed or handed to evaluate: a sequence of statements
    parse_result,     \* what parse_program returned
    env,              \* the caller's Environment, passed to Evaluator::new
    result,           \* the Object evaluate returned (or the panic that ended it)
    trace,            \* what the evaluator did, in order (see EnterEvent .. RetEvent)
    overflow_checks,  \* the build profile: TRUE (debug) panics on i64 overflow, FALSE wraps
    round_trip,       \* <<>>, or <<p>> once the text of Program p is being parsed again
    pending,          \* the Programs the caller will hand to evaluate next, on the same env
    session           \* the Programs evaluated on env so far, in order

vars ==
    <<pc, source, tokens, program, parse_result, env, result, trace, overflow_checks,
      round_trip, pending, session>>

(***************************************************************************)
(* Bounds                                                                  *)
(***************************************************************************)
\* i64 is modelled as a two's complement integer of IntBits bits.
IntBits == 11

Pow2(n) == 2 ^ n

MinInt == -Pow2(IntBits - 1)

MaxInt == Pow2(IntBits - 1) - 1

(***************************************************************************)
(* Tokens (src/src/token.rs)                                               *)
(***************************************************************************)
Token(kind, literal) == [kind |-> kind, literal |-> literal]

EofToken == Token("Eof", <<>>)

\* enum Precedence, ordered by declaration (derive(PartialOrd))
Lowest == 0

Equals == 1

Lessgreater == 2

Sum == 3

Product == 4

Prefix == 5

Call == 6

get_precedence(tok) ==
    CASE tok.kind = "Equal" -> Equals
      [] tok.kind = "NotEqual" -> Equals
      [] tok.kind = "LessThan" -> Lessgreater
      [] tok.kind = "GreaterThan" -> Lessgreater
      [] tok.kind = "Plus" -> Sum
      [] tok.kind = "Minus" -> Sum
      [] tok.kind = "Slash" -> Product
      [] tok.kind = "Aster" -> Product
      [] OTHER -> Lowest

(***************************************************************************)
(* AST (src/src/ast.rs)                                                    *)
(***************************************************************************)
IdentE(name) == [kind |-> "Ident", name |-> name]

IntE(n) == [kind |-> "Int", int |-> n]

BooleanE(b) == [kind |-> "Boolean", bool |-> b]

PrefixE(op, right) == [kind |-> "Prefix", op |-> op, right |-> right]

InfixE(left, op, right) == [kind |-> "Infix", left |-> left, op |-> op, right |-> right]

\* alternative: Option<BlockStatement> is <<>> (None) or <<block>> (Some)
IfE(condition, consequence, alternative) ==
    [kind |-> "If", condition |-> condition, consequence |-> consequence,
     alternative |-> alternative]

FunctionE(parameters, body) ==
    [kind |-> "Function", parameters |-> parameters, body |-> body]

CallE(function, arguments) ==
    [kind |-> "Call", function |-> function, arguments |-> arguments]

LetS(ident, value) == [kind |-> "Let", ident |-> ident, value |-> value]

ReturnS(expr) == [kind |-> "Return", expr |-> expr]

ExpressionS(expr) == [kind |-> "Expression", expr |-> expr]

(***************************************************************************)
(* Parser (src/src/parser.rs)                                              *)
(*                                                                         *)
(* The parser state is the position pos in the token stream: cur_token is  *)
(* token pos and peek_token is token pos + 1; next_token is pos + 1.  A    *)
(* parse function returns its value with the position it leaves the parser *)
(* at, or the error that ends the whole parse.                             *)
(***************************************************************************)
\* Lexer::next_token as the parser sees it: the tokens in order, then Eof forever
TokenAt(toks, i) == IF i <= Len(toks) THEN toks[i] ELSE EofToken

cur_token(toks, pos) == TokenAt(toks, pos)

peek_token(toks, pos) == TokenAt(toks, pos + 1)

cur_token_is(toks, pos, kind) == cur_token(toks, pos).kind = kind

peek_token_is(toks, pos, kind) == peek_token(toks, pos).kind = kind

\* a right operand parsed at the lowest precedence instead of the operator's own
cur_precedence_lowest(toks, pos) == Lowest

cur_precedence(toks, pos) == get_precedence(cur_token(toks, pos))

peek_precedence(toks, pos) == get_precedence(peek_token(toks, pos))

Ok(val, pos) == [ok |-> TRUE, val |-> val, pos |-> pos]

Err(err, pos) == [ok |-> FALSE, err |-> err, pos |-> pos]

UnexpectedToken(expected, found) ==
    [kind |-> "UnexpectedToken", expected |-> expected, found |-> found]

InvalidToken(found) == [kind |-> "InvalidToken", found |-> found]

ParseIntError == [kind |-> "ParseIntError"]

ParserPanic(why) == [kind |-> "Panic", why |-> why]

\* the infix loop of parse_expression would spin without consuming a token
ParserHang == [kind |-> "Hang"]

Digits == <<"0", "1", "2", "3", "4", "5", "6", "7", "8", "9">>

IsDigit(c) == \E i \in 1..10 : Digits[i] = c

DigitValue(c) == (CHOOSE i \in 1..10 : Digits[i] = c) - 1

\* str::parse::<i64>: -1 stands for Err (empty, a non-digit, or out of range)
RECURSIVE parse_i64(_, _)
parse_i64(lit, acc) ==
    IF lit = <<>> THEN acc
    ELSE IF ~IsDigit(Head(lit)) THEN -1
    ELSE LET n == acc * 10 + DigitValue(Head(lit))
         IN  IF n > MaxInt THEN -1 ELSE parse_i64(Tail(lit), n)

parse_identifier(toks, pos) == Ok(IdentE(cur_token(toks, pos).literal), pos)

parse_int(toks, pos) ==
    LET lit == cur_token(toks, pos).literal
        n == IF lit = <<>> THEN -1 ELSE parse_i64(lit, 0)
    IN  IF n >= 0 THEN Ok(IntE(n), pos) ELSE Err(ParseIntError, pos)

parse_boolean(toks, pos) == Ok(BooleanE(cur_token_is(toks, pos, "True")), pos)

parse_prefix(toks, pos) ==
    CASE cur_token_is(toks, pos, "Ident") -> parse_identifier(toks, pos)
      [] cur_token_is(toks, pos, "Int") -> parse_int(toks, pos)
      [] OTHER -> Err(ParserPanic("parse_prefix()"), pos)

IsInfixOperator(kind) ==
    kind \in {"Plus", "Minus", "Slash", "Aster", "Equal", "NotEqual",
              "LessThan", "GreaterThan"}

\* `if self.peek_token_is(Semicolon) { self.next_token(); }`
skip_semicolon(toks, pos) == IF peek_token_is(toks, pos, "Semicolon") THEN pos + 1 ELSE pos

RECURSIVE parse_statement(_, _)
RECURSIVE parse_expression(_, _, _)
RECURSIVE parse_expression_loop(_, _, _, _)
RECURSIVE parse_call_arguments_loop(_, _, _)
RECURSIVE parse_function_parameters_loop(_, _, _)
RECURSIVE parse_block_statement_loop(_, _, _)
RECURSIVE parse_program_loop(_, _, _)

\* In each parse function, the local operator with_x(x) is the rest of the function
\* after `let x = ...`; where the source has `?`, an Err ends the function.
parse_let_statement(toks, pos) ==
    LET with_value(value) ==
            IF ~value.ok THEN value
            ELSE Ok(LetS(IdentE(cur_token(toks, pos + 1).literal), value.val),
                    skip_semicolon(toks, value.pos))
    IN  IF ~peek_token_is(toks, pos, "Ident")
        THEN Err(UnexpectedToken("Ident", cur_token(toks, pos)), pos)
        ELSE IF ~peek_token_is(toks, pos + 1, "Assign")
        THEN Err(UnexpectedToken("Assign", peek_token(toks, pos + 1)), pos + 1)
        ELSE with_value(parse_expression(toks, pos + 3, Lowest))

parse_return_statement(toks, pos) ==
    LET with_expr(expr) ==
            IF ~expr.ok THEN expr
            ELSE Ok(ReturnS(expr.val), skip_semicolon(toks, expr.pos))
    IN  with_expr(parse_expression(toks, pos + 1, Lowest))

parse_expression_statement(toks, pos) ==
    LET with_expr(expr) ==
            IF ~expr.ok THEN expr
            ELSE Ok(ExpressionS(expr.val), skip_semicolon(toks, expr.pos))
    IN  with_expr(parse_expression(toks, pos, Lowest))

parse_statement(toks, pos) ==
    CASE cur_token_is(toks, pos, "Let") -> parse_let_statement(toks, pos)
      [] cur_token_is(toks, pos, "Return") -> parse_return_statement(toks, pos)
      [] OTHER -> parse_expression_statement(toks, pos)

parse_prefix_expression(toks, pos) ==
    LET with_right(right) ==
            IF ~right.ok THEN right
            ELSE Ok(PrefixE(cur_token(toks, pos).literal, right.val), right.pos)
    IN  with_right(parse_expression(toks, pos + 1, Prefix))

parse_infix_expression(toks, pos, left) ==
    LET with_right(right) ==
            IF ~right.ok THEN right
            ELSE Ok(InfixE(left, cur_token(toks, pos).literal, right.val), right.pos)
    IN  with_right(parse_expression(toks, pos + 1, cur_precedence(toks, pos)))

\* expr is returned without `?`, after the check for `)`: a failed parse leaves
\* the parser where the failure was found
parse_group_expression(toks, pos) ==
    LET with_expr(expr) ==
            IF ~peek_token_is(toks, expr.pos, "Rparen")
            THEN Err(UnexpectedToken("Rparen", cur_token(toks, expr.pos)), expr.pos)
            ELSE IF ~expr.ok THEN Err(expr.err, expr.pos + 1)
            ELSE Ok(expr.val, expr.pos + 1)
    IN  with_expr(parse_expression(toks, pos + 1, Lowest))

\* the while loop of parse_block_statement
parse_block_statement_loop(toks, pos, statements) ==
    LET with_stmt(stmt) ==
            IF ~stmt.ok THEN stmt
            ELSE parse_block_statement_loop(toks, stmt.pos + 1,
                                            Append(statements, stmt.val))
    IN  IF ~cur_token_is(toks, pos, "Rbrace") /\ ~cur_token_is(toks, pos, "Eof")
        THEN with_stmt(parse_statement(toks, pos))
        ELSE Ok(statements, pos)

parse_block_statement(toks, pos) == parse_block_statement_loop(toks, pos + 1, <<>>)

parse_if_expression(toks, pos) ==
    LET with_alternative(condition, consequence, alternative) ==
            IF ~alternative.ok THEN alternative
            ELSE Ok(IfE(condition.val, consequence.val, <<alternative.val>>),
                    alternative.pos)
        with_consequence(condition, consequence) ==
            IF ~consequence.ok THEN consequence
            ELSE IF ~peek_token_is(toks, consequence.pos, "Else")
            THEN Ok(IfE(condition.val, consequence.val, <<>>), consequence.pos)
            ELSE IF ~peek_token_is(toks, consequence.pos + 1, "Lbrace")
            THEN Err(UnexpectedToken("Lbrace", peek_token(toks, consequence.pos + 1)),
                     consequence.pos + 1)
            ELSE with_alternative(condition, consequence,
                                  parse_block_statement(toks, consequence.pos + 2))
        with_condition(condition) ==
            IF ~condition.ok THEN condition
            ELSE IF ~peek_token_is(toks, condition.pos, "Rparen")
            THEN Err(UnexpectedToken("Rparen", peek_token(toks, condition.pos)),
                     condition.pos)
            ELSE IF ~peek_token_is(toks, condition.pos + 1, "Lbrace")
            THEN Err(UnexpectedToken("Lbrace", peek_token(toks, condition.pos + 1)),
                     condition.pos + 1)
            ELSE with_consequence(condition,
                                  parse_block_statement(toks, condition.pos + 2))
    IN  IF ~peek_token_is(toks, pos, "Lparen")
        THEN Err(UnexpectedToken("Lparen", peek_token(toks, pos)), pos)
        ELSE with_condition(parse_expression(toks, pos + 2, Lowest))

\* the while loop of parse_function_parameters
parse_function_parameters_loop(toks, pos, idents) ==
    IF peek_token_is(toks, pos, "Comma")
    THEN parse_function_parameters_loop(toks, pos + 2,
                                        Append(idents, cur_token(toks, pos + 2).literal))
    ELSE Ok(idents, pos)

parse_function_parameters(toks, pos) ==
    LET with_idents(idents) ==
            IF ~peek_token_is(toks, idents.pos, "Rparen")
            THEN Err(UnexpectedToken("Rparen", cur_token(toks, idents.pos)), idents.pos)
            ELSE Ok(idents.val, idents.pos + 1)
    IN  IF peek_token_is(toks, pos, "Rparen") THEN Ok(<<>>, pos + 1)
        ELSE with_idents(parse_function_parameters_loop(
                            toks, pos + 1, <<cur_token(toks, pos + 1).literal>>))

parse_function_literal(toks, pos) ==
    LET with_body(parameters, body) ==
            IF ~body.ok THEN body
            ELSE Ok(FunctionE(parameters.val, body.val), body.pos)
        with_parameters(parameters) ==
            IF ~parameters.ok THEN parameters
            ELSE IF ~peek_token_is(toks, parameters.pos, "Lbrace")
            THEN Err(UnexpectedToken("Lbrace", cur_token(toks, parameters.pos)),
                     parameters.pos)
            ELSE with_body(parameters, parse_block_statement(toks, parameters.pos + 1))
    IN  IF ~peek_token_is(toks, pos, "Lparen")
        THEN Err(UnexpectedToken("Lparen", cur_token(toks, pos)), pos)
        ELSE with_parameters(parse_function_parameters(toks, pos + 1))

\* the while loop of parse_call_arguments
parse_call_arguments_loop(toks, pos, args) ==
    LET with_arg(arg) ==
            IF ~arg.ok THEN arg
            ELSE parse_call_arguments_loop(toks, arg.pos, Append(args, arg.val))
    IN  IF peek_token_is(toks, pos, "Comma")
        THEN with_arg(parse_expression(toks, pos + 2, Lowest))
        ELSE Ok(args, pos)

parse_call_arguments(toks, pos) ==
    LET with_args(args) ==
            IF ~args.ok THEN args
            ELSE IF ~peek_token_is(toks, args.pos, "Rparen")
            THEN Err(UnexpectedToken("Rparen", cur_token(toks, args.pos)), args.pos)
            ELSE Ok(args.val, args.pos + 1)
        with_first(first) ==
            IF ~first.ok THEN first
            ELSE with_args(parse_call_arguments_loop(toks, first.pos, <<first.val>>))
    IN  IF peek_token_is(toks, pos, "Rparen") THEN Ok(<<>>, pos + 1)
        ELSE with_first(parse_expression(toks, pos + 1, Lowest))

parse_call_expression(toks, pos, function) ==
    LET with_arguments(arguments) ==
            IF ~arguments.ok THEN arguments
            ELSE Ok(CallE(function, arguments.val), arguments.pos)
    IN  with_arguments(parse_call_arguments(toks, pos))

\* the while loop of parse_expression: left_expr is extended while the peek token
\* is not `;` and binds tighter than precedence
parse_expression_loop(toks, pos, precedence, left_expr) ==
    LET with_left_expr(extended) ==
            IF ~extended.ok THEN extended
            ELSE parse_expression_loop(toks, extended.pos, precedence, extended.val)
    IN  IF ~peek_token_is(toks, pos, "Semicolon")
           /\ precedence < peek_precedence(toks, pos)
        THEN CASE IsInfixOperator(peek_token(toks, pos).kind) ->
                    with_left_expr(parse_infix_expression(toks, pos + 1, left_expr))
               [] peek_token_is(toks, pos, "Lparen") ->
                    with_left_expr(parse_call_expression(toks, pos + 1, left_expr))
               [] OTHER -> Err(ParserHang, pos)
        ELSE Ok(left_expr, pos)

parse_expression(toks, pos, precedence) ==
    LET with_left_expr(left_expr) ==
            IF ~left_expr.ok THEN left_expr
            ELSE parse_expression_loop(toks, left_expr.pos, precedence, left_expr.val)
    IN  with_left_expr(
            CASE cur_token_is(toks, pos, "Ident") -> parse_prefix(toks, pos)
              [] cur_token_is(toks, pos, "Int") -> parse_int(toks, pos)
              [] cur_token_is(toks, pos, "True") \/ cur_token_is(toks, pos, "False") ->
                    parse_boolean(toks, pos)
              [] cur_token_is(toks, pos, "Bang") \/ cur_token_is(toks, pos, "Minus") ->
                    parse_prefix_expression(toks, pos)
              [] cur_token_is(toks, pos, "Lparen") -> parse_group_expression(toks, pos)
              [] cur_token_is(toks, pos, "If") -> parse_if_expression(toks, pos)
              [] cur_token_is(toks, pos, "Function") -> parse_function_literal(toks, pos)
              [] OTHER -> Err(InvalidToken(cur_token(toks, pos)), pos))

\* the while loop of parse_program
parse_program_loop(toks, pos, statements) ==
    LET with_stmt(stmt) ==
            IF ~stmt.ok THEN stmt
            ELSE parse_program_loop(toks, stmt.pos + 1, Append(statements, stmt.val))
    IN  IF ~cur_token_is(toks, pos, "Eof")
        THEN with_stmt(parse_statement(toks, pos))
        ELSE Ok(statements, pos)

\* Parser::new leaves cur_token at the first token; parse_program starts there
parse_program(toks) == parse_program_loop(toks, 1, <<>>)

(***************************************************************************)
(* Lexer (src/src/lexer.rs)                                                *)
(*                                                                         *)
(* The input is a sequence of one-character strings.  The lexer state is   *)
(* position, the index of the byte in ch (read_position is position + 1);  *)
(* past the end of the input ch is the byte 0.                             *)
(***************************************************************************)
NUL == ""

Letters ==
    {"a", "b", "c", "d", "e", "f", "g", "h", "i", "j", "k", "l", "m",
     "n", "o", "p", "q", "r", "s", "t", "u", "v", "w", "x", "y", "z",
     "A", "B", "C", "D", "E", "F", "G", "H", "I", "J", "K", "L", "M",
     "N", "O", "P", "Q", "R", "S", "T", "U", "V", "W", "X", "Y", "Z"}

Whitespace == {" ", "\t", "\n", "\r"}

\* self.ch once position is the current position
ch(input, position) == IF position <= Len(input) THEN input[position] ELSE NUL

\* Lexer::new: read_char puts the first byte in ch
Lexer_new == 1

read_char(position) == position + 1

peek_char(input, position) == ch(input, position + 1)

RECURSIVE skip_whitespace(_, _)
skip_whitespace(input, position) ==
    IF ch(input, position) \in Whitespace
    THEN skip_whitespace(input, read_char(position))
    ELSE position

\* the position read_identifier stops at; the literal is input[start..position)
RECURSIVE read_identifier(_, _)
read_identifier(input, position) ==
    IF ch(input, position) \in Letters
    THEN read_identifier(input, read_char(position))
    ELSE position

RECURSIVE read_number(_, _)
read_number(input, position) ==
    IF IsDigit(ch(input, position))
    THEN read_number(input, read_char(position))
    ELSE position

look_up_ident(ident) ==
    CASE ident = <<"l", "e", "t">> -> "Let"
      [] ident = <<"f", "n">> -> "Function"
      [] ident = <<"i", "f">> -> "If"
      [] ident = <<"e", "l", "s", "e">> -> "Else"
      [] ident = <<"r", "e", "t", "u", "r", "n">> -> "Return"
      [] ident = <<"f", "a", "l", "s", "e">> -> "False"
      [] ident = <<"t", "r", "u", "e">> -> "True"
      [] OTHER -> "Ident"

Lexed(tok, position) == [tok |-> tok, position |-> position]

\* the match of next_token on self.ch, with the read_char that follows it
token_at(input, position) ==
    CASE ch(input, position) = "=" ->
            IF peek_char(input, position) = "="
            THEN Lexed(Token("Equal", <<"=", "=">>), read_char(read_char(position)))
            ELSE Lexed(Token("Assign", <<"=">>), read_char(position))
      [] ch(input, position) = "+" -> Lexed(Token("Plus", <<"+">>), read_char(position))
      [] ch(input, position) = "-" -> Lexed(Token("Minus", <<"-">>), read_char(position))
      [] ch(input, position) = "/" -> Lexed(Token("Slash", <<"/">>), read_char(position))
      [] ch(input, position) = "*" -> Lexed(Token("Aster", <<"*">>), read_char(position))
      [] ch(input, position) = "!" ->
            IF peek_char(input, position) = "="
            THEN Lexed(Token("NotEqual", <<"!", "=">>), read_char(read_char(position)))
            ELSE Lexed(Token("Bang", <<"!">>), read_char(position))
      [] ch(input, position) = ";" ->
            Lexed(Token("Semicolon", <<";">>), read_char(position))
      [] ch(input, position) = "(" -> Lexed(Token("Lparen", <<"(">>), read_char(position))
      [] ch(input, position) = ")" -> Lexed(Token("Rparen", <<")">>), read_char(position))
      [] ch(input, position) = "," -> Lexed(Token("Comma", <<",">>), read_char(position))
      [] ch(input, position) = "{" -> Lexed(Token("Lbrace", <<"{">>), read_char(position))
      [] ch(input, position) = "}" -> Lexed(Token("Rbrace", <<"}">>), read_char(position))
      [] ch(input, position) = ">" ->
            Lexed(Token("GreaterThan", <<">">>), read_char(position))
      [] ch(input, position) = "<" ->
            Lexed(Token("LessThan", <<"<">>), read_char(position))
      [] ch(input, position) \in Letters ->
            Lexed(Token(look_up_ident(SubSeq(input, position,
                                             read_identifier(input, position) - 1)),
                        SubSeq(input, position, read_identifier(input, position) - 1)),
                  read_identifier(input, position))
      [] IsDigit(ch(input, position)) ->
            Lexed(Token("Int", SubSeq(input, position, read_number(input, position) - 1)),
                  read_number(input, position))
      [] OTHER -> Lexed(EofToken, read_char(position))

next_token(input, position) == token_at(input, skip_whitespace(input, position))

\* the tokens next_token returns, call after call, until the input is used up;
\* every later call returns Eof
RECURSIVE token_stream(_, _)
token_stream(input, position) ==
    LET with_tok(lexed) == <<lexed.tok>> \o token_stream(input, lexed.position)
    IN  IF skip_whitespace(input, position) > Len(input) THEN <<>>
        ELSE with_tok(next_token(input, position))

(***************************************************************************)
(* Display (src/src/ast.rs): the text of a syntax tree                     *)
(***************************************************************************)
\* the decimal digits of n >= 0
RECURSIVE digits_of(_)
digits_of(n) ==
    IF n < 10 THEN <<Digits[n + 1]>>
    ELSE digits_of(n \div 10) \o <<Digits[(n % 10) + 1]>>

\* Display for i64
i64_to_string(n) == IF n < 0 THEN <<"-">> \o digits_of(-n) ELSE digits_of(n)

\* [String]::join(", ")
RECURSIVE join(_, _)
join(strings, separator) ==
    IF strings = <<>> THEN <<>>
    ELSE IF Len(strings) = 1 THEN strings[1]
    ELSE strings[1] \o separator \o join(Tail(strings), separator)

RECURSIVE Expression_to_string(_)
RECURSIVE Statement_to_string(_)
RECURSIVE BlockStatement_to_string(_)

\* an Infix written without its parentheses
Expression_to_string_bare(expr) ==
    CASE expr.kind = "Ident" -> expr.name
      [] expr.kind = "Int" -> i64_to_string(expr.int)
      [] expr.kind = "Boolean" ->
            IF expr.bool THEN <<"t", "r", "u", "e">> ELSE <<"f", "a", "l", "s", "e">>
      [] expr.kind = "Prefix" ->
            <<"(">> \o expr.op \o Expression_to_string(expr.right) \o <<")">>
      [] expr.kind = "Infix" ->
            Expression_to_string(expr.left) \o <<" ">> \o expr.op \o <<" ">>
            \o Expression_to_string(expr.right)
      [] expr.kind = "If" ->
            <<"i", "f", " ">> \o Expression_to_string(expr.condition) \o <<" ">>
            \o BlockStatement_to_string(expr.consequence)
            \o (IF expr.alternative # <<>>
                THEN BlockStatement_to_string(expr.alternative[1]) ELSE <<>>)
      [] expr.kind = "Function" ->
            <<"f", "n", " ", "(">> \o join(expr.parameters, <<",", " ">>)
            \o <<")", " ", "{", " ">> \o BlockStatement_to_string(expr.body)
            \o <<" ", "}">>
      [] expr.kind = "Call" ->
            Expression_to_string(expr.function) \o <<"(">>
            \o join([i \in 1..Len(expr.arguments) |->
                        Expression_to_string(expr.arguments[i])], <<",", " ">>)
            \o <<")">>

Expression_to_string(expr) ==
    CASE expr.kind = "Ident" -> expr.name
      [] expr.kind = "Int" -> i64_to_string(expr.int)
      [] expr.kind = "Boolean" ->
            IF expr.bool THEN <<"t", "r", "u", "e">> ELSE <<"f", "a", "l", "s", "e">>
      [] expr.kind = "Prefix" ->
            <<"(">> \o expr.op \o Expression_to_string(expr.right) \o <<")">>
      [] expr.kind = "Infix" ->
            <<"(">> \o Expression_to_string(expr.left) \o <<" ">> \o expr.op \o <<" ">>
            \o Expression_to_string(expr.right) \o <<")">>
      [] expr.kind = "If" ->
            <<"i", "f", " ">> \o Expression_to_string(expr.condition) \o <<" ">>
            \o BlockStatement_to_string(expr.consequence)
            \o (IF expr.alternative # <<>>
                THEN BlockStatement_to_string(expr.alternative[1]) ELSE <<>>)
      [] expr.kind = "Function" ->
            <<"f", "n", " ", "(">> \o join(expr.parameters, <<",", " ">>)
            \o <<")", " ", "{", " ">> \o BlockStatement_to_string(expr.body)
            \o <<" ", "}">>
      [] expr.kind = "Call" ->
            Expression_to_string(expr.function) \o <<"(">>
            \o join([i \in 1..Len(expr.arguments) |->
                        Expression_to_string(expr.arguments[i])], <<",", " ">>)
            \o <<")">>

Statement_to_string(stmt) ==
    CASE stmt.kind = "Let" ->
            <<"l", "e", "t", " ">> \o Expression_to_string(stmt.ident)
            \o <<" ", "=", " ">> \o Expression_to_string(stmt.value) \o <<";">>
      [] stmt.kind = "Return" ->
            <<"r", "e", "t", "u", "r", "n", " ">> \o Expression_to_string(stmt.expr)
            \o <<";">>
      [] stmt.kind = "Expression" -> Expression_to_string(stmt.expr)

BlockStatement_to_string(block) ==
    IF block = <<>> THEN <<>>
    ELSE Statement_to_string(block[1]) \o BlockStatement_to_string(Tail(block))

\* Display for Program: writeln! of each statement
RECURSIVE Program_to_string(_)
Program_to_string(statements) ==
    IF statements = <<>> THEN <<>>
    ELSE Statement_to_string(statements[1]) \o <<"\n">>
         \o Program_to_string(Tail(statements))

(***************************************************************************)
(* Runtime values (src/src/object.rs)                                      *)
(***************************************************************************)
IntO(n) == [kind |-> "Int", int |-> n]

BooleanO(b) == [kind |-> "Boolean", bool |-> b]

NullO == [kind |-> "Null"]

ReturnO(obj) == [kind |-> "Return", obj |-> obj]

FunctionO(parameters, body, environment) ==
    [kind |-> "Function", parameters |-> parameters, body |-> body,
     environment |-> environment]

ErrorO(msg) == [kind |-> "Error", msg |-> msg]

\* a Rust panic: the evaluation is aborted and no Object is returned
PanicO(why) == [kind |-> "Panic", why |-> why]

IsPanic(obj) == obj.kind = "Panic"

IsError(obj) == obj.kind = "Error"

\* Object::type_info: the arm `_ => unreachable!()` panics
type_info(obj) ==
    CASE obj.kind = "Int" -> [ok |-> TRUE, str |-> <<"INTEGER">>]
      [] obj.kind = "Boolean" -> [ok |-> TRUE, str |-> <<"BOOLEAN">>]
      [] obj.kind = "Error" -> [ok |-> TRUE, str |-> <<"FUNCTION">>]
      [] OTHER -> [ok |-> FALSE, str |-> <<>>]

(***************************************************************************)
(* Environment (src/src/environment.rs)                                    *)
(*                                                                         *)
(* An Environment is a value: store is a function from the bound names,    *)
(* outer is <<>> (None) or <<environment>> (Some(Box)).  derive(Clone)     *)
(* copies store and outer, so a clone is the same value and shares nothing *)
(* with the original afterwards.                                           *)
(***************************************************************************)
Environment_new == [store |-> <<>>, outer |-> <<>>]

\* no new environment: the callee binds in the captured environment itself
new_enclosed_flat(outer) == outer

new_enclosed(outer) == [store |-> <<>>, outer |-> <<outer>>]

\* a lookup that does not walk outward through outer
get_store_only(e, name) == IF name \in DOMAIN e.store THEN <<e.store[name]>> ELSE <<>>

\* Option<Object>: <<>> is None, <<obj>> is Some(obj)
RECURSIVE get(_, _)
get(e, name) ==
    IF name \in DOMAIN e.store THEN <<e.store[name]>>
    ELSE IF e.outer # <<>> THEN get(e.outer[1], name)
    ELSE <<>>

\* a set that leaves a name that is already bound as it is
set_keep_first(e, name, obj) ==
    IF name \in DOMAIN e.store THEN e
    ELSE [e EXCEPT !.store = [n \in (DOMAIN e.store) \cup {name} |->
                                IF n = name THEN obj ELSE e.store[n]]]

\* the environment after set; set returns obj itself
set(e, name, obj) ==
    [e EXCEPT !.store = [n \in (DOMAIN e.store) \cup {name} |->
                            IF n = name THEN obj ELSE e.store[n]]]

(***************************************************************************)
(* Evaluator (src/src/evaluator.rs)                                        *)
(*                                                                         *)
(* An evaluation function takes the environment self.env refers to and the *)
(* trace so far, and returns the object with the environment and the trace *)
(* it leaves behind.                                                       *)
(***************************************************************************)
EvalR(obj, e, tr) == [obj |-> obj, env |-> e, tr |-> tr]

\* The trace records what the evaluator did, in order: a statement entered, a
\* statement left with its value, a function body entered with its parameters
\* bound, a function body left with the value of the call.  A panic leaves no
\* exit behind.
EnterEvent(stmt) == [ev |-> "enter", stmt |-> stmt]

ExitEvent(stmt, obj) == [ev |-> "exit", stmt |-> stmt, obj |-> obj]

CallEvent(e) == [ev |-> "call", env |-> e]

RetEvent(obj) == [ev |-> "ret", obj |-> obj]

\* i64 arithmetic: an out-of-range result panics when overflow checks are
\* compiled in and wraps in two's complement otherwise
Wrap(n) == ((n - MinInt) % Pow2(IntBits)) + MinInt

InRange(n) == MinInt <= n /\ n <= MaxInt

Arith(n) ==
    IF InRange(n) THEN IntO(n)
    ELSE IF overflow_checks THEN PanicO("arithmetic overflow")
    ELSE IntO(Wrap(n))

Abs(n) == IF n < 0 THEN -n ELSE n

\* i64 division truncates toward zero
TruncDiv(l, r) ==
    IF (l < 0) = (r < 0) THEN Abs(l) \div Abs(r) ELSE -(Abs(l) \div Abs(r))

evaluate_int_infix_expression(op, left, right) ==
    CASE op = <<"+">> -> Arith(left + right)
      [] op = <<"-">> -> Arith(left - right)
      [] op = <<"*">> -> Arith(left * right)
      [] op = <<"/">> ->
            IF right = 0 THEN PanicO("attempt to divide by zero")
            ELSE IF left = MinInt /\ right = -1
            THEN PanicO("attempt to divide with overflow")
            ELSE IntO(TruncDiv(left, right))
      [] op = <<"<">> -> BooleanO(left < right)
      [] op = <<">">> -> BooleanO(left > right)
      [] op = <<"=", "=">> -> BooleanO(left = right)
      [] op = <<"!", "=">> -> BooleanO(left # right)
      [] OTHER -> ErrorO(<<"unknown operator: INTEGER ">> \o op \o <<" INTEGER">>)

evaluate_infix_expression(op, left, right) ==
    CASE left.kind = "Int" /\ right.kind = "Int" ->
            evaluate_int_infix_expression(op, left.int, right.int)
      [] OTHER ->
         IF op = <<"=", "=">> /\ left.kind = "Boolean" /\ right.kind = "Boolean"
         THEN BooleanO(left.bool = right.bool)
         ELSE IF op = <<"!", "=">> /\ left.kind = "Boolean" /\ right.kind = "Boolean"
         THEN BooleanO(left.bool # right.bool)
         ELSE LET l == type_info(left)
                  r == type_info(right)
              IN  \* the guard evaluates _left.type_info() and then _right.type_info()
                  IF ~l.ok \/ ~r.ok THEN PanicO("unreachable: type_info")
                  ELSE IF l.str # r.str
                  THEN ErrorO(<<"type mismatch: ">> \o l.str \o <<" ">> \o op
                              \o <<" ">> \o r.str)
                  ELSE ErrorO(<<"unknown operator: ">> \o l.str \o <<" ">> \o op
                              \o <<" ">> \o r.str)

evaluate_minus_prefix_operator_expression(right) ==
    IF right.kind = "Int" THEN Arith(-right.int)
    ELSE LET t == type_info(right)
         IN  IF ~t.ok THEN PanicO("unreachable: type_info")
             ELSE ErrorO(<<"unknown operator: -">> \o t.str)

evaluate_bang_operator_expression(right) ==
    CASE right.kind = "Boolean" /\ right.bool -> BooleanO(FALSE)
      [] right.kind = "Boolean" /\ ~right.bool -> BooleanO(TRUE)
      [] right.kind = "Null" -> BooleanO(TRUE)
      [] OTHER -> BooleanO(FALSE)

evaluate_prefix_expression(op, right) ==
    CASE op = <<"!">> -> evaluate_bang_operator_expression(right)
      [] op = <<"-">> -> evaluate_minus_prefix_operator_expression(right)
      [] OTHER ->
            LET t == type_info(right)
            IN  IF ~t.ok THEN PanicO("unreachable: type_info")
                ELSE ErrorO(<<"unknown operator: ">> \o op \o t.str)

evaluate_identifier(name, e) ==
    LET found == get(e, name)
    IN  IF found # <<>> THEN found[1]
        ELSE ErrorO(<<"identifier not found: ">> \o name)

\* a truthiness that takes the integer 0 for false as well
is_truthy_nonzero(obj) ==
    CASE obj.kind = "Null" -> FALSE
      [] obj.kind = "Boolean" -> obj.bool
      [] obj.kind = "Int" -> obj.int # 0
      [] OTHER -> TRUE

is_truthy(obj) ==
    CASE obj.kind = "Null" -> FALSE
      [] obj.kind = "Boolean" -> obj.bool
      [] OTHER -> TRUE

\* `if let Object::Error(_) = obj { return obj; }` ends the calling function with
\* the Error; a panic unwinds through every caller
is_error(obj) == IsPanic(obj) \/ IsError(obj)

RECURSIVE evaluate_statement(_, _, _)
RECURSIVE evaluate_expression(_, _, _)
RECURSIVE evaluate_block_statement_loop(_, _, _, _, _)
RECURSIVE evaluate_expressions_loop(_, _, _, _, _)
RECURSIVE bind_parameters(_, _, _, _)

\* In each evaluation function, the local operator with_x(x) is the rest of the
\* function after `let x = ...`.

\* a block that hands a Return on as it is, for its caller to unwrap
RECURSIVE evaluate_block_statement_loop_wrapped(_, _, _, _, _)
evaluate_block_statement_loop_wrapped(statements, i, obj, e, tr) ==
    LET with_obj(r) ==
            CASE IsPanic(r.obj) -> r
              [] r.obj.kind = "Return" -> r
              [] r.obj.kind = "Error" -> r
              [] OTHER -> evaluate_block_statement_loop_wrapped(statements, i + 1, r.obj,
                                                                r.env, r.tr)
    IN  IF i > Len(statements) THEN EvalR(obj, e, tr)
        ELSE with_obj(evaluate_statement(statements[i], e, tr))

\* the for loop of evaluate_block_statement, at statement i with obj the last value
evaluate_block_statement_loop(statements, i, obj, e, tr) ==
    LET with_obj(r) ==
            CASE IsPanic(r.obj) -> r
              [] r.obj.kind = "Return" -> EvalR(r.obj.obj, r.env, r.tr)
              [] r.obj.kind = "Error" -> r
              [] OTHER -> evaluate_block_statement_loop(statements, i + 1, r.obj,
                                                        r.env, r.tr)
    IN  IF i > Len(statements) THEN EvalR(obj, e, tr)
        ELSE with_obj(evaluate_statement(statements[i], e, tr))

evaluate_block_statement(block, e, tr) ==
    evaluate_block_statement_loop(block, 1, NullO, e, tr)

\* a let that binds whatever its expression gave, an Error included
evaluate_let_statement_binds_error(ident, expr, e, tr) ==
    LET with_obj(r) ==
            IF IsPanic(r.obj) THEN r
            ELSE EvalR(r.obj, set(r.env, ident.name, r.obj), r.tr)
    IN  IF ident.kind # "Ident" THEN EvalR(PanicO("unreachable: let ident"), e, tr)
        ELSE with_obj(evaluate_expression(expr, e, tr))

evaluate_let_statement(ident, expr, e, tr) ==
    LET with_obj(r) ==
            IF is_error(r.obj) THEN r
            ELSE EvalR(r.obj, set(r.env, ident.name, r.obj), r.tr)
    IN  IF ident.kind # "Ident" THEN EvalR(PanicO("unreachable: let ident"), e, tr)
        ELSE with_obj(evaluate_expression(expr, e, tr))

evaluate_return_statement(expr, e, tr) ==
    LET with_obj(r) ==
            IF is_error(r.obj) THEN r ELSE EvalR(ReturnO(r.obj), r.env, r.tr)
    IN  with_obj(evaluate_expression(expr, e, tr))

evaluate_statement(stmt, e, tr) ==
    LET with_obj(r) ==
            IF IsPanic(r.obj) THEN r
            ELSE EvalR(r.obj, r.env, Append(r.tr, ExitEvent(stmt, r.obj)))
    IN  with_obj(
            CASE stmt.kind = "Expression" ->
                    evaluate_expression(stmt.expr, e, Append(tr, EnterEvent(stmt)))
              [] stmt.kind = "Let" ->
                    evaluate_let_statement(stmt.ident, stmt.value, e,
                                           Append(tr, EnterEvent(stmt)))
              [] stmt.kind = "Return" ->
                    evaluate_return_statement(stmt.expr, e,
                                              Append(tr, EnterEvent(stmt))))

\* an `if` whose branch runs in a scope of its own, dropped at the end of the branch
evaluate_if_expression_scoped(condition, consequence, alternative, e, tr) ==
    LET with_block(c, r) == EvalR(r.obj, c.env, r.tr)
        with_condition(c) ==
            IF is_error(c.obj) THEN c
            ELSE IF is_truthy(c.obj)
            THEN with_block(c, evaluate_block_statement(consequence,
                                                        new_enclosed(c.env), c.tr))
            ELSE IF alternative # <<>>
            THEN with_block(c, evaluate_block_statement(alternative[1],
                                                        new_enclosed(c.env), c.tr))
            ELSE EvalR(NullO, c.env, c.tr)
    IN  with_condition(evaluate_expression(condition, e, tr))

evaluate_if_expression(condition, consequence, alternative, e, tr) ==
    LET with_condition(c) ==
            IF is_error(c.obj) THEN c
            ELSE IF is_truthy(c.obj)
            THEN evaluate_block_statement(consequence, c.env, c.tr)
            ELSE IF alternative # <<>>
            THEN evaluate_block_statement(alternative[1], c.env, c.tr)
            ELSE EvalR(NullO, c.env, c.tr)
    IN  with_condition(evaluate_expression(condition, e, tr))

\* a loop that evaluates every expression and then reports the first error
RECURSIVE evaluate_expressions_loop_all(_, _, _, _, _)
evaluate_expressions_loop_all(exprs, i, objs, e, tr) ==
    LET first_error ==
            CHOOSE k \in DOMAIN objs :
                is_error(objs[k]) /\ \A j \in 1..(k - 1) : ~is_error(objs[j])
        with_obj(r) ==
            evaluate_expressions_loop_all(exprs, i + 1, Append(objs, r.obj), r.env, r.tr)
    IN  IF i > Len(exprs)
        THEN [objs |-> IF \E k \in DOMAIN objs : is_error(objs[k])
                       THEN <<objs[first_error]>> ELSE objs,
              env |-> e, tr |-> tr]
        ELSE with_obj(evaluate_expression(exprs[i], e, tr))

\* the for loop of evaluate_expressions, at expression i with result the values so
\* far; an error ends it with vec![obj]
evaluate_expressions_loop(exprs, i, objs, e, tr) ==
    LET with_obj(r) ==
            IF is_error(r.obj) THEN [objs |-> <<r.obj>>, env |-> r.env, tr |-> r.tr]
            ELSE evaluate_expressions_loop(exprs, i + 1, Append(objs, r.obj),
                                           r.env, r.tr)
    IN  IF i > Len(exprs) THEN [objs |-> objs, env |-> e, tr |-> tr]
        ELSE with_obj(evaluate_expression(exprs[i], e, tr))

evaluate_expressions(exprs, e, tr) == evaluate_expressions_loop(exprs, 1, <<>>, e, tr)

\* the for loop of apply_function: env.set(param, args[i].clone()); args[i] panics
\* when i is out of range.  <<>> stands for the panic, <<env>> for the bound env.
bind_parameters(parameters, args, i, e) ==
    IF i > Len(parameters) THEN <<e>>
    ELSE IF i > Len(args) THEN <<>>
    ELSE bind_parameters(parameters, args, i + 1, set(e, parameters[i], args[i]))

\* `match obj { Object::Return(obj) => *obj, _ => obj }`
unwrap_return(obj) == IF obj.kind = "Return" THEN obj.obj ELSE obj

\* the callee runs in an Evaluator of its own on a new environment: the caller's
\* environment is not touched, only the object and the trace come back
apply_function(func, args, tr) ==
    LET with_obj(r) ==
            IF IsPanic(r.obj) THEN [obj |-> r.obj, tr |-> r.tr]
            ELSE [obj |-> unwrap_return(r.obj),
                  tr |-> Append(r.tr, RetEvent(unwrap_return(r.obj)))]
        with_env(bound) ==
            IF bound = <<>>
            THEN [obj |-> PanicO("index out of bounds: args[i]"), tr |-> tr]
            ELSE with_obj(evaluate_block_statement(func.body, bound[1],
                                                   Append(tr, CallEvent(bound[1]))))
    IN  IF func.kind = "Function"
        THEN with_env(bind_parameters(func.parameters, args, 1,
                                      new_enclosed(func.environment)))
        ELSE IF ~type_info(func).ok
        THEN [obj |-> PanicO("unreachable: type_info"), tr |-> tr]
        ELSE [obj |-> ErrorO(<<"not a function: ">> \o type_info(func).str), tr |-> tr]

evaluate_expression(expr, e, tr) ==
    LET with_prefix_right(right) ==
            IF is_error(right.obj) THEN right
            ELSE EvalR(evaluate_prefix_expression(expr.op, right.obj),
                       right.env, right.tr)
        with_right(left, right) ==
            IF is_error(right.obj) THEN right
            ELSE EvalR(evaluate_infix_expression(expr.op, left.obj, right.obj),
                       right.env, right.tr)
        with_left(left) ==
            IF is_error(left.obj) THEN left
            ELSE with_right(left, evaluate_expression(expr.right, left.env, left.tr))
        \* the caller's environment is the one the arguments left behind
        with_applied(args, r) == EvalR(r.obj, args.env, r.tr)
        with_args(func, args) ==
            IF args.objs # <<>> /\ IsPanic(args.objs[1])
            THEN EvalR(args.objs[1], args.env, args.tr)
            ELSE with_applied(args, apply_function(func.obj, args.objs, args.tr))
        with_func(func) ==
            IF is_error(func.obj) THEN func
            ELSE with_args(func, evaluate_expressions(expr.arguments, func.env,
                                                      func.tr))
    IN  CASE expr.kind = "Int" -> EvalR(IntO(expr.int), e, tr)
          [] expr.kind = "Ident" -> EvalR(evaluate_identifier(expr.name, e), e, tr)
          [] expr.kind = "Boolean" -> EvalR(BooleanO(expr.bool), e, tr)
          [] expr.kind = "Prefix" ->
                with_prefix_right(evaluate_expression(expr.right, e, tr))
          [] expr.kind = "Infix" -> with_left(evaluate_expression(expr.left, e, tr))
          [] expr.kind = "If" ->
                evaluate_if_expression(expr.condition, expr.consequence,
                                       expr.alternative, e, tr)
          [] expr.kind = "Function" ->
                \* environment: self.env.clone()
                EvalR(FunctionO(expr.parameters, expr.body, e), e, tr)
          [] expr.kind = "Call" -> with_func(evaluate_expression(expr.function, e, tr))

\* the for loop of evaluate, at statement i with obj the last value
RECURSIVE evaluate_loop(_, _, _, _, _)
evaluate_loop(statements, i, obj, e, tr) ==
    LET with_obj(r) ==
            CASE IsPanic(r.obj) -> r
              [] r.obj.kind = "Return" -> EvalR(r.obj.obj, r.env, r.tr)
              [] r.obj.kind = "Error" -> r
              [] OTHER -> evaluate_loop(statements, i + 1, r.obj, r.env, r.tr)
    IN  IF i > Len(statements) THEN EvalR(obj, e, tr)
        ELSE with_obj(evaluate_statement(statements[i], e, tr))

\* an evaluation on a copy of the caller's environment, which is left as it was
evaluate_on_clone(prog, e) == [evaluate_loop(prog, 1, NullO, e, <<>>) EXCEPT !.env = e]

evaluate(prog, e) == evaluate_loop(prog, 1, NullO, e, <<>>)

(***************************************************************************)
(* Inputs: token streams as Lexer::next_token produces them                *)
(***************************************************************************)
tLet == Token("Let", <<"l", "e", "t">>)

tFunction == Token("Function", <<"f", "n">>)

tIf == Token("If", <<"i", "f">>)

tElse == Token("Else", <<"e", "l", "s", "e">>)

tReturn == Token("Return", <<"r", "e", "t", "u", "r", "n">>)

tTrue == Token("True", <<"t", "r", "u", "e">>)

tFalse == Token("False", <<"f", "a", "l", "s", "e">>)

tAssign == Token("Assign", <<"=">>)

tPlus == Token("Plus", <<"+">>)

tMinus == Token("Minus", <<"-">>)

tSlash == Token("Slash", <<"/">>)

tAster == Token("Aster", <<"*">>)

tBang == Token("Bang", <<"!">>)

tSemicolon == Token("Semicolon", <<";">>)

tLparen == Token("Lparen", <<"(">>)

tRparen == Token("Rparen", <<")">>)

tLbrace == Token("Lbrace", <<"{">>)

tRbrace == Token("Rbrace", <<"}">>)

tComma == Token("Comma", <<",">>)

tGreaterThan == Token("GreaterThan", <<">">>)

tLessThan == Token("LessThan", <<"<">>)

tEqual == Token("Equal", <<"=", "=">>)

tNotEqual == Token("NotEqual", <<"!", "=">>)

tIdent(name) == Token("Ident", name)

tInt(literal) == Token("Int", literal)

BinaryOperatorTokens ==
    {tEqual, tNotEqual, tLessThan, tGreaterThan, tPlus, tMinus, tAster, tSlash}

PrefixOperatorTokens == {tBang, tMinus}

\* an operand of the precedence inputs: its token and the expression it stands for
Operand(tok, expr) == [tok |-> tok, expr |-> expr]

opA == Operand(tIdent(<<"a">>), IdentE(<<"a">>))

opB == Operand(tIdent(<<"b">>), IdentE(<<"b">>))

opC == Operand(tIdent(<<"c">>), IdentE(<<"c">>))

op1 == Operand(tInt(<<"1">>), IntE(1))

op2 == Operand(tInt(<<"2">>), IntE(2))

op12 == Operand(tInt(<<"1", "2">>), IntE(12))

opTrue == Operand(tTrue, BooleanE(TRUE))

OperandTriples == {<<opA, opB, opC>>, <<op1, op2, op12>>, <<op12, opA, opTrue>>}

\* x op1 y op2 z
BinaryChainInputs ==
    {<<t[1].tok, o1, t[2].tok, o2, t[3].tok>> :
        t \in OperandTriples, o1 \in BinaryOperatorTokens, o2 \in BinaryOperatorTokens}

\* p x op y, p a prefix operator
PrefixChainInputs ==
    {<<p, t[1].tok, o, t[2].tok>> :
        p \in PrefixOperatorTokens, t \in OperandTriples, o \in BinaryOperatorTokens}

\* the argument lists of the call inputs: their tokens and their expressions
ArgumentLists ==
    {[toks |-> <<>>, exprs |-> <<>>],
     [toks |-> <<opB.tok>>, exprs |-> <<opB.expr>>],
     [toks |-> <<opB.tok, tAster, opC.tok>>,
      exprs |-> <<InfixE(opB.expr, <<"*">>, opC.expr)>>],
     [toks |-> <<op1.tok, tComma, op2.tok>>, exprs |-> <<op1.expr, op2.expr>>]}

tAdd == tIdent(<<"a", "d", "d">>)

tD == tIdent(<<"d">>)

\* a + add(args) + d
CallChain(args) ==
    <<opA.tok, tPlus, tAdd, tLparen>> \o args.toks \o <<tRparen, tPlus, tD>>

CallChainInputs == {CallChain(args) : args \in ArgumentLists}

t10 == tInt(<<"1", "0">>)

t999 == tInt(<<"9", "9", "9">>)

\* if (10 > 1) { if (10 > 1) { return 10; } } 999;
ReturnExampleTokens ==
    <<tIf, tLparen, t10, tGreaterThan, op1.tok, tRparen, tLbrace,
        tIf, tLparen, t10, tGreaterThan, op1.tok, tRparen, tLbrace,
            tReturn, t10, tSemicolon,
        tRbrace,
      tRbrace,
      t999, tSemicolon>>

\* return 10; 999;
ReturnTopLevelTokens == <<tReturn, t10, tSemicolon, t999, tSemicolon>>

\* let a = 5; let a = a + 1; a;
LetExampleTokens ==
    <<tLet, opA.tok, tAssign, tInt(<<"5">>), tSemicolon,
      tLet, opA.tok, tAssign, opA.tok, tPlus, op1.tok, tSemicolon,
      opA.tok, tSemicolon>>

\* if (true) { let a = 1; } a;
IfLetExampleTokens ==
    <<tIf, tLparen, tTrue, tRparen, tLbrace, tLet, opA.tok, tAssign, op1.tok, tSemicolon,
      tRbrace, opA.tok, tSemicolon>>

ExampleInputs ==
    {ReturnExampleTokens, ReturnTopLevelTokens, LetExampleTokens, IfLetExampleTokens}

tX == tIdent(<<"x">>)

tY == tIdent(<<"y">>)

\* the tokens that stand in a parameter position in the function inputs
ParameterTokens == {tX, tY, op1.tok, tTrue, tPlus}

\* most parameters of a function literal in the token inputs
MaxParameterTokens == 2

ParameterLists == UNION {[1..n -> ParameterTokens] : n \in 0..MaxParameterTokens}

\* p1, p2, ..
RECURSIVE CommaSeparated(_)
CommaSeparated(ps) ==
    IF Len(ps) <= 1 THEN ps ELSE <<Head(ps), tComma>> \o CommaSeparated(Tail(ps))

FunctionBodyTokens == <<tLbrace, tX, tRbrace>>

\* a function input: its tokens, whether it is `fn`, `(`, comma-separated Ident
\* tokens, `)`, `{`, a body, and the parameter tokens
FunctionInput(toks, wellformed, ps) ==
    [toks |-> toks, wellformed |-> wellformed, parameters |-> ps]

\* fn(<ps>) { x }
FunctionLiteral(ps) ==
    FunctionInput(<<tFunction, tLparen>> \o CommaSeparated(ps) \o <<tRparen>>
                  \o FunctionBodyTokens,
                  \A i \in 1..Len(ps) : ps[i].kind = "Ident", ps)

\* fn(x,) { x }   fn(,x) { x }   fn(x y) { x }   fn(x { x }   fn(x) x }   fn x) { x }
MalformedFunctionLiterals ==
    {FunctionInput(<<tFunction, tLparen, tX, tComma, tRparen>> \o FunctionBodyTokens,
                   FALSE, <<>>),
     FunctionInput(<<tFunction, tLparen, tComma, tX, tRparen>> \o FunctionBodyTokens,
                   FALSE, <<>>),
     FunctionInput(<<tFunction, tLparen, tX, tY, tRparen>> \o FunctionBodyTokens,
                   FALSE, <<>>),
     FunctionInput(<<tFunction, tLparen, tX>> \o FunctionBodyTokens, FALSE, <<>>),
     FunctionInput(<<tFunction, tLparen, tX, tRparen, tX, tRbrace>>, FALSE, <<>>),
     FunctionInput(<<tFunction, tX, tRparen>> \o FunctionBodyTokens, FALSE, <<>>)}

FunctionInputs == {FunctionLiteral(ps) : ps \in ParameterLists} \cup MalformedFunctionLiterals

\* an input in which the token at index `at` stands where a token of kind
\* `expected` is required
UnexpectedInput(toks, expected, at) == [toks |-> toks, expected |-> expected, at |-> at]

\* let 1 = 2;   let a 1;
LetUnexpectedInputs ==
    {UnexpectedInput(<<tLet, op1.tok, tAssign, op2.tok, tSemicolon>>, "Ident", 2),
     UnexpectedInput(<<tLet, opA.tok, op1.tok, tSemicolon>>, "Assign", 3)}

\* if a) { x }   if (a { x }   if (a) x }   if (a) { x } else x }
IfUnexpectedInputs ==
    {UnexpectedInput(<<tIf, opA.tok, tRparen>> \o FunctionBodyTokens, "Lparen", 2),
     UnexpectedInput(<<tIf, tLparen, opA.tok>> \o FunctionBodyTokens, "Rparen", 4),
     UnexpectedInput(<<tIf, tLparen, opA.tok, tRparen, tX, tRbrace>>, "Lbrace", 5),
     UnexpectedInput(<<tIf, tLparen, opA.tok, tRparen>> \o FunctionBodyTokens
                     \o <<tElse, tX, tRbrace>>, "Lbrace", 9)}

\* fn x) { x }   fn(x { x }   fn(x) x }
FunctionUnexpectedInputs ==
    {UnexpectedInput(<<tFunction, tX, tRparen>> \o FunctionBodyTokens, "Lparen", 2),
     UnexpectedInput(<<tFunction, tLparen, tX>> \o FunctionBodyTokens, "Rparen", 4),
     UnexpectedInput(<<tFunction, tLparen, tX, tRparen, tX, tRbrace>>, "Lbrace", 5)}

\* (a + b;
GroupUnexpectedInputs ==
    {UnexpectedInput(<<tLparen, opA.tok, tPlus, opB.tok, tSemicolon>>, "Rparen", 5)}

UnexpectedInputs ==
    LetUnexpectedInputs \cup IfUnexpectedInputs \cup FunctionUnexpectedInputs
    \cup GroupUnexpectedInputs

TokenInputs ==
    BinaryChainInputs \cup PrefixChainInputs \cup CallChainInputs \cup ExampleInputs
    \cup {i.toks : i \in FunctionInputs} \cup {i.toks : i \in UnexpectedInputs}

(***************************************************************************)
(* Inputs: source texts handed to Lexer::new                               *)
(***************************************************************************)
\* if (x) { y
UnterminatedIfText ==
    <<"i", "f", " ", "(", "x", ")", " ", "{", " ", "y">>

\* fn(x) { x
UnterminatedFunctionText ==
    <<"f", "n", "(", "x", ")", " ", "{", " ", "x">>

\* if (a) { if (b) { c
UnterminatedNestedText ==
    <<"i", "f", " ", "(", "a", ")", " ", "{", " ", "i", "f", " ", "(", "b", ")", " ",
      "{", " ", "c">>

\* 1 @ 2
StrayByteText ==
    <<"1", " ", "@", " ", "2">>

\* fn() { y @ z
StrayByteInFunctionText ==
    <<"f", "n", "(", ")", " ", "{", " ", "y", " ", "@", " ", "z">>

\* if (x) { y @ } z
StrayByteInBlockText ==
    <<"i", "f", " ", "(", "x", ")", " ", "{", " ", "y", " ", "@", " ", "}", " ", "z">>

\* if (x) { y @ else { z }
StrayByteBeforeElseText ==
    <<"i", "f", " ", "(", "x", ")", " ", "{", " ", "y", " ", "@", " ", "e", "l", "s",
      "e", " ", "{", " ", "z", " ", "}">>

\* let a = 1; @ let b = 2;
StrayByteBetweenLetsText ==
    <<"l", "e", "t", " ", "a", " ", "=", " ", "1", ";", " ", "@", " ", "l", "e", "t",
      " ", "b", " ", "=", " ", "2", ";">>

\* 1 + 2 @
StrayByteAtEndText ==
    <<"1", " ", "+", " ", "2", " ", "@">>

\* let a = 1; a
TwoStatementsText ==
    <<"l", "e", "t", " ", "a", " ", "=", " ", "1", ";", " ", "a">>

\* (+ 1) 2
FailedGroupText ==
    <<"(", "+", " ", "1", ")", " ", "2">>

SourceExamples ==
    {UnterminatedIfText, UnterminatedFunctionText, UnterminatedNestedText,
     StrayByteText, StrayByteInFunctionText, StrayByteInBlockText,
     StrayByteBeforeElseText, StrayByteBetweenLetsText, StrayByteAtEndText,
     TwoStatementsText, FailedGroupText}

\* every text of up to MaxSourceLen bytes over a letter, a digit, a blank, two
\* operator bytes and a byte that starts no token
MaxSourceLen == 3

SourceBytes == {"a", "1", " ", "=", "!", "@"}

ShortTexts == UNION {[1..n -> SourceBytes] : n \in 0..MaxSourceLen}

SourceInputs == SourceExamples \cup ShortTexts

(***************************************************************************)
(* Inputs: programs handed to Evaluator::evaluate as syntax trees          *)
(***************************************************************************)
nA == <<"a">>

nB == <<"b">>

nF == <<"f">>

nG == <<"g">>

nN == <<"n">>

nX == <<"x">>

nY == <<"y">>

nFoobar == <<"f", "o", "o", "b", "a", "r">>

nNewAdder == <<"n", "e", "w", "A", "d", "d", "e", "r">>

nAddTwo == <<"a", "d", "d", "T", "w", "o">>

nAddThree == <<"a", "d", "d", "T", "h", "r", "e", "e">>

\* deepest nesting of `if` blocks in the inputs
MaxDepth == 2

\* most parameters and most arguments of a call in the inputs
MaxParams == 2

\* deepest recursion asked of a recursive function in the inputs
MaxRecursion == 2

\* 10 > 1, the condition of the nested blocks
TrueCondition == InfixE(IntE(10), <<">">>, IntE(1))

\* stmt inside d nested `if (10 > 1) { ... }` blocks, each block ending with the
\* statements of after
RECURSIVE Nested(_, _, _)
Nested(d, stmt, after) ==
    IF d = 0 THEN stmt
    ELSE ExpressionS(IfE(TrueCondition, <<Nested(d - 1, stmt, after)>> \o after, <<>>))

\* `return 10;` at depth d, then `999;` and `let b = 1;`, as a program and as the
\* body of a function that is called
ReturnBody(d) ==
    <<Nested(d, ReturnS(IntE(10)), <<>>), ExpressionS(IntE(999)), LetS(IdentE(nB), IntE(1))>>

ReturnPrograms ==
    {ReturnBody(d) : d \in 0..MaxDepth}
    \cup {<<LetS(IdentE(nF), FunctionE(<<>>, ReturnBody(d))),
            ExpressionS(CallE(IdentE(nF), <<>>)),
            ExpressionS(IntE(5))>> : d \in 0..MaxDepth}

\* the statement `foobar;`, which evaluates to "identifier not found: foobar"
ErrorStatement == ExpressionS(IdentE(nFoobar))

\* return if (true) { return 10; 999; let b = 1; };
ReturnOfReturn == <<ReturnS(IfE(BooleanE(TRUE), ReturnBody(0), <<>>))>>

LaterStatements == <<LetS(IdentE(nB), IntE(1))>>

\* a function of m parameters whose body is body
ParameterNames == <<nX, nY, nN>>

FunctionOf(m, body) == FunctionE(SubSeq(ParameterNames, 1, m), body)

\* the places a block can stand in: a statement, an operand, the value of a let,
\* a condition, the body of a called function, an argument of a call
ErrorBlock(d) == <<Nested(d, ErrorStatement, LaterStatements)>> \o LaterStatements

InContext(ctx, block) ==
    LET ifE == IfE(BooleanE(TRUE), block, <<>>)
    IN  CASE ctx = "statement" -> <<ExpressionS(ifE)>> \o LaterStatements
          [] ctx = "operand" ->
                <<ExpressionS(InfixE(IntE(1), <<"+">>, ifE))>> \o LaterStatements
          [] ctx = "let" -> <<LetS(IdentE(nA), ifE)>> \o LaterStatements
          [] ctx = "condition" ->
                <<ExpressionS(IfE(ifE, <<ExpressionS(IntE(1))>>, <<>>))>>
                \o LaterStatements
          [] ctx = "body" ->
                <<ExpressionS(CallE(FunctionOf(0, block), <<>>))>> \o LaterStatements
          [] ctx = "argument" ->
                <<ExpressionS(CallE(FunctionOf(1, <<ExpressionS(IntE(7))>>), <<ifE>>))>>
                \o LaterStatements

Contexts == {"statement", "operand", "let", "condition", "body", "argument"}

ErrorPrograms ==
    {ErrorBlock(d) : d \in 0..MaxDepth}
    \cup {InContext(ctx, ErrorBlock(d)) : ctx \in Contexts, d \in 0..MaxDepth}

\* a block with a return in it wherever a block can stand
ReturnValuePrograms ==
    {InContext(ctx, ReturnBody(d)) : ctx \in Contexts, d \in 0..MaxDepth}
    \cup {ReturnOfReturn}

\* let f = fn(<m parameters>) { 7 }; f(<args>);
CallProgram(m, args) ==
    <<LetS(IdentE(nF), FunctionOf(m, <<ExpressionS(IntE(7))>>)),
      ExpressionS(CallE(IdentE(nF), args))>>

\* n arguments 1, 2, ..
IntArguments(n) == [i \in 1..n |-> IntE(i)]

\* n arguments of which argument i is `foobar`
ErrorArguments(n, i) == [j \in 1..n |-> IF j = i THEN IdentE(nFoobar) ELSE IntE(j)]

CallErrorPrograms ==
    {CallProgram(q[1], ErrorArguments(q[2], q[3])) :
        q \in {t \in (0..MaxParams) \X (1..MaxParams) \X (1..MaxParams) : t[3] <= t[2]}}

ArityPrograms == {CallProgram(m, IntArguments(n)) : m \in 0..MaxParams, n \in 0..MaxParams}

\* an expression for each kind of runtime value
ValueOfKind(kind) ==
    CASE kind = "Int" -> IntE(1)
      [] kind = "Boolean" -> BooleanE(TRUE)
      [] kind = "Null" -> IfE(BooleanE(FALSE), <<ExpressionS(IntE(1))>>, <<>>)
      [] kind = "Function" -> FunctionE(<<nX>>, <<ExpressionS(IdentE(nX))>>)

ValueKinds == {"Int", "Boolean", "Null", "Function"}

InfixOperators ==
    {<<"+">>, <<"-">>, <<"*">>, <<"/">>, <<"<">>, <<">">>, <<"=", "=">>, <<"!", "=">>}

InfixProgram(left, op, right) == <<ExpressionS(InfixE(left, op, right))>>

KindPrograms ==
    {InfixProgram(ValueOfKind(l), op, ValueOfKind(r)) :
        l \in ValueKinds, op \in InfixOperators, r \in ValueKinds}

\* the i64 operands of the arithmetic inputs: the ends of the range, zero, and
\* values around it
EdgeInts == {MinInt, -1, 0, 1, 7, MaxInt}

ArithmeticPrograms ==
    {InfixProgram(IntE(l), op, IntE(r)) : l \in EdgeInts, op \in InfixOperators, r \in EdgeInts}
    \cup {<<ExpressionS(PrefixE(<<"-">>, IntE(v)))>> : v \in EdgeInts}
    \cup {<<ExpressionS(PrefixE(<<"!">>, IntE(v)))>> : v \in EdgeInts}

\* let newAdder = fn(x) { fn(y) { x + y }; }; let addTwo = newAdder(a1);
\* let addThree = newAdder(a2); <first>(b1); <second>(b2);
AdderValues == {-3, 2}

AdderArguments == {0, 3}

AdderClosures == {nAddTwo, nAddThree}

AdderProgram(a1, a2, first, b1, second, b2) ==
    <<LetS(IdentE(nNewAdder),
           FunctionE(<<nX>>,
                     <<ExpressionS(FunctionE(<<nY>>,
                           <<ExpressionS(InfixE(IdentE(nX), <<"+">>, IdentE(nY)))>>))>>)),
      LetS(IdentE(nAddTwo), CallE(IdentE(nNewAdder), <<IntE(a1)>>)),
      LetS(IdentE(nAddThree), CallE(IdentE(nNewAdder), <<IntE(a2)>>)),
      ExpressionS(CallE(IdentE(first), <<IntE(b1)>>)),
      ExpressionS(CallE(IdentE(second), <<IntE(b2)>>))>>

AdderPrograms ==
    {AdderProgram(a1, a2, first, b1, second, b2) :
        a1 \in AdderValues, a2 \in AdderValues, first \in AdderClosures,
        b1 \in AdderArguments, second \in AdderClosures, b2 \in AdderArguments}

\* let f = fn() { g }; let g = v; f();
LateBindingProgram(v) ==
    <<LetS(IdentE(nF), FunctionE(<<>>, <<ExpressionS(IdentE(nG))>>)),
      LetS(IdentE(nG), IntE(v)),
      ExpressionS(CallE(IdentE(nF), <<>>))>>

\* let g = v0; let f = fn() { g }; let g = v; f();
RebindingProgram(v0, v) == <<LetS(IdentE(nG), IntE(v0))>> \o LateBindingProgram(v)

\* let f = fn(n) { if (n < 1) { 0 } else { f(n - 1) } }; f(k);
RecursionProgram(k) ==
    <<LetS(IdentE(nF),
           FunctionE(<<nN>>,
               <<ExpressionS(IfE(InfixE(IdentE(nN), <<"<">>, IntE(1)),
                                 <<ExpressionS(IntE(0))>>,
                                 <<<<ExpressionS(CallE(IdentE(nF),
                                        <<InfixE(IdentE(nN), <<"-">>, IntE(1))>>))>>>>))>>)),
      ExpressionS(CallE(IdentE(nF), <<IntE(k)>>))>>

SharingPrograms ==
    {LateBindingProgram(v) : v \in AdderValues}
    \cup {RebindingProgram(v0, v) : v0 \in AdderValues, v \in AdderArguments}
    \cup {RecursionProgram(k) : k \in 0..MaxRecursion}

\* most `let` statements on one name in the inputs
MaxLets == 3

LetValues == {1, 5}

\* let a = vs[1]; then for each later v either `let a = v;` or, rebinding,
\* `let a = a + v;`
LetChain(vs, rebinding) ==
    [k \in 1..Len(vs) |->
        LetS(IdentE(nA),
             IF rebinding /\ k > 1 THEN InfixE(IdentE(nA), <<"+">>, IntE(vs[k]))
             ELSE IntE(vs[k]))]

LetSequences == UNION {[1..n -> LetValues] : n \in 1..MaxLets}

\* <chain> a;
LetProgram(vs, rebinding) == LetChain(vs, rebinding) \o <<ExpressionS(IdentE(nA))>>

\* fn() { <chain> a; }();
ScopedLetProgram(vs, rebinding) ==
    <<ExpressionS(CallE(FunctionE(<<>>, LetProgram(vs, rebinding)), <<>>))>>

LetPrograms ==
    {LetProgram(vs, rebinding) : vs \in LetSequences, rebinding \in BOOLEAN}
    \cup {ScopedLetProgram(vs, rebinding) : vs \in LetSequences, rebinding \in BOOLEAN}

\* the conditions of the truthiness inputs: an expression for each kind of
\* non-error value, and whether the value is neither false nor Null
Condition(expr, truthy) == [expr |-> expr, truthy |-> truthy]

Conditions ==
    {Condition(IntE(0), TRUE), Condition(IntE(5), TRUE), Condition(IntE(-1), TRUE),
     Condition(BooleanE(TRUE), TRUE), Condition(BooleanE(FALSE), FALSE),
     Condition(ValueOfKind("Null"), FALSE), Condition(ValueOfKind("Function"), TRUE)}

ThenStatement == ExpressionS(IntE(10))

ElseStatement == ExpressionS(IntE(20))

\* if (v) { 10 } else { 20 }
IfElseProgram(v) == <<ExpressionS(IfE(v, <<ThenStatement>>, <<<<ElseStatement>>>>))>>

\* if (v) { 10 }
IfProgram(v) == <<ExpressionS(IfE(v, <<ThenStatement>>, <<>>))>>

\* !v
BangProgram(v) == <<ExpressionS(PrefixE(<<"!">>, v))>>

TruthPrograms ==
    {IfElseProgram(c.expr) : c \in Conditions} \cup {IfProgram(c.expr) : c \in Conditions}
    \cup {BangProgram(c.expr) : c \in Conditions}

\* the expressions of the printing inputs: identifiers, integer literals and
\* booleans under the prefix operators and the binary operators, nested on the
\* left, on the right and under a prefix operator
Atoms == {opA.expr, opB.expr, op12.expr, opTrue.expr, BooleanE(FALSE)}

PrefixLiterals == {p.literal : p \in PrefixOperatorTokens}

PrintedExpressions ==
    Atoms
    \cup {PrefixE(p, x) : p \in PrefixLiterals, x \in Atoms}
    \cup {PrefixE(p, PrefixE(q, x)) : p \in PrefixLiterals, q \in PrefixLiterals, x \in Atoms}
    \cup {InfixE(t[1].expr, o1, InfixE(t[2].expr, o2, t[3].expr)) :
            t \in OperandTriples, o1 \in InfixOperators, o2 \in InfixOperators}
    \cup {InfixE(InfixE(t[1].expr, o1, t[2].expr), o2, t[3].expr) :
            t \in OperandTriples, o1 \in InfixOperators, o2 \in InfixOperators}
    \cup {PrefixE(p, InfixE(t[1].expr, o, t[2].expr)) :
            p \in PrefixLiterals, t \in OperandTriples, o \in InfixOperators}
    \cup {InfixE(t[1].expr, o, PrefixE(p, t[2].expr)) :
            p \in PrefixLiterals, t \in OperandTriples, o \in InfixOperators}

PrintedPrograms == {<<ExpressionS(e)>> : e \in PrintedExpressions}

\* most Programs evaluated one after the other on one Environment
MaxPrograms == 3

\* a Program of the sessions, with the top-level lets of it that are executed, in
\* order: the lets before the first statement that is an error or a return
SessionInput(prog, lets) == [program |-> prog, lets |-> lets]

SessionInputs ==
    {SessionInput(<<LetS(IdentE(nA), IntE(1))>>, <<<<nA, 1>>>>),
     SessionInput(<<LetS(IdentE(nA), IntE(2)), LetS(IdentE(nB), IntE(5))>>,
                  <<<<nA, 2>>, <<nB, 5>>>>),
     SessionInput(<<LetS(IdentE(nB), IntE(2)), ErrorStatement, LetS(IdentE(nA), IntE(3))>>,
                  <<<<nB, 2>>>>),
     SessionInput(<<LetS(IdentE(nB), IntE(7)), ReturnS(IdentE(nB)),
                    LetS(IdentE(nA), IntE(9))>>,
                  <<<<nB, 7>>>>),
     SessionInput(<<ExpressionS(IdentE(nA))>>, <<>>)}

SessionPrograms == {i.program : i \in SessionInputs}

Sessions == UNION {[1..n -> SessionPrograms] : n \in 1..MaxPrograms}

nZ == <<"z">>

\* value expressions that evaluate to an Error and execute no let:
\* foobar, !foobar, 1 + foobar, if (true) { foobar }, 1()
FailingValues ==
    {IdentE(nFoobar),
     PrefixE(<<"!">>, IdentE(nFoobar)),
     InfixE(IntE(1), <<"+">>, IdentE(nFoobar)),
     IfE(BooleanE(TRUE), <<ErrorStatement>>, <<>>),
     CallE(IntE(1), <<>>)}

\* if (true) { let a = 7; foobar }: a value expression that binds a and then fails
RebindingValue ==
    IfE(BooleanE(TRUE), <<LetS(IdentE(nA), IntE(7)), ErrorStatement>>, <<>>)

\* [let a = 5;] let a = <value>; let b = 1;   at the top level, or with the failing
\* let and what follows it inside `if (true) { .. }`
FailedLet(value) == <<LetS(IdentE(nA), value), LetS(IdentE(nB), IntE(1))>>

FailedLetProgram(prior, value, nested) ==
    (IF prior THEN <<LetS(IdentE(nA), IntE(5))>> ELSE <<>>)
    \o (IF nested THEN <<ExpressionS(IfE(BooleanE(TRUE), FailedLet(value), <<>>))>>
        ELSE FailedLet(value))

FailedLetPrograms ==
    {FailedLetProgram(prior, value, nested) :
        prior \in BOOLEAN, value \in FailingValues \cup {RebindingValue},
        nested \in BOOLEAN}

\* the Program that reads a afterwards, on the same Environment
ReadProgram == <<ExpressionS(IdentE(nA))>>

FailedLetSessions == {<<prog, ReadProgram>> : prog \in FailedLetPrograms}

\* fn(x) { let y = x; let z = 9; let x = 7; y }: the parameter and the locals
\* x and y are named like variables of the caller
FrameFunction ==
    FunctionE(<<nX>>, <<LetS(IdentE(nY), IdentE(nX)), LetS(IdentE(nZ), IntE(9)),
                       LetS(IdentE(nX), IntE(7)), ExpressionS(IdentE(nY))>>)

FrameValues == {1, 3}

FrameArguments == {5, 8}

\* let x = v; let y = 2; let f = <FrameFunction>; f(arg); x;
FrameProgram(v, arg) ==
    <<LetS(IdentE(nX), IntE(v)), LetS(IdentE(nY), IntE(2)), LetS(IdentE(nF), FrameFunction),
      ExpressionS(CallE(IdentE(nF), <<IntE(arg)>>)), ExpressionS(IdentE(nX))>>

\* let g = fn(n) { if (n) { let z = 1; }; z }; g(true); g(false);
LocalsProgram ==
    <<LetS(IdentE(nG),
           FunctionE(<<nN>>,
                     <<ExpressionS(IfE(IdentE(nN), <<LetS(IdentE(nZ), IntE(1))>>, <<>>)),
                       ExpressionS(IdentE(nZ))>>)),
      ExpressionS(CallE(IdentE(nG), <<BooleanE(TRUE)>>)),
      ExpressionS(CallE(IdentE(nG), <<BooleanE(FALSE)>>))>>

FramePrograms ==
    {FrameProgram(v, arg) : v \in FrameValues, arg \in FrameArguments} \cup {LocalsProgram}

\* if (c) { let a = 1; } else { let b = 2; }; <name>;
BranchBody(c, name) ==
    <<ExpressionS(IfE(BooleanE(c), <<LetS(IdentE(nA), IntE(1))>>,
                      <<<<LetS(IdentE(nB), IntE(2))>>>>)),
      ExpressionS(IdentE(name))>>

\* the body as the program, or as the body of a function that is called
BranchProgram(c, name, called) ==
    IF called THEN <<ExpressionS(CallE(FunctionE(<<>>, BranchBody(c, name)), <<>>))>>
    ELSE BranchBody(c, name)

\* `let a = 1;` inside d nested `if (10 > 1) { .. }` blocks, then `a;`
NestedLetProgram(d) ==
    <<Nested(d, LetS(IdentE(nA), IntE(1)), <<>>), ExpressionS(IdentE(nA))>>

BranchPrograms ==
    {BranchProgram(c, name, called) : c \in BOOLEAN, name \in {nA, nB}, called \in BOOLEAN}
    \cup {NestedLetProgram(d) : d \in 1..MaxDepth}

\* the statement whose execution shows that a sub-expression was evaluated
MarkStatement(name, v) == LetS(IdentE(name), IntE(v))

\* if (true) { let <name> = <v>; <value> }: a sub-expression with an effect on the
\* environment
Mark(name, v, value) ==
    IfE(BooleanE(TRUE), <<MarkStatement(name, v), ExpressionS(value)>>, <<>>)

\* the value of a marked sub-expression: v, or the error of `foobar`
MarkValue(v, fails) == IF fails THEN IdentE(nFoobar) ELSE IntE(v)

\* <mark a> + <mark b>, either of them failing
InfixOrderProgram(leftFails, rightFails) ==
    <<ExpressionS(InfixE(Mark(nA, 1, MarkValue(1, leftFails)), <<"+">>,
                         Mark(nB, 2, MarkValue(2, rightFails))))>>

\* <mark a> + a   and   a + <mark a>
ReadAfterProgram == <<ExpressionS(InfixE(Mark(nA, 1, IntE(1)), <<"+">>, IdentE(nA)))>>

ReadBeforeProgram == <<ExpressionS(InfixE(IdentE(nA), <<"+">>, Mark(nA, 1, IntE(1))))>>

\* the names bound by the arguments of a call, in order
MarkNames == <<nA, nB, nZ>>

\* the callee: fn() { 7 }, or fn(x, y, n) { n }
Callee(full) ==
    IF full THEN FunctionE(ParameterNames, <<ExpressionS(IdentE(nN))>>)
    ELSE FunctionE(<<>>, <<ExpressionS(IntE(7))>>)

\* <mark g, callee>(<mark a>, <mark b>, <mark z>) where the callee fails, or
\* argument k does (k = 0: none)
CallOrderProgram(calleeFails, k, full) ==
    <<ExpressionS(
        CallE(Mark(nG, 9, IF calleeFails THEN IdentE(nFoobar) ELSE Callee(full)),
              [i \in DOMAIN MarkNames |-> Mark(MarkNames[i], i, MarkValue(i, i = k))]))>>

\* <mark a, fn(x) { x }>(a)   and   fn(x, y) { y }(<mark a>, a)
CalleeFirstProgram ==
    <<ExpressionS(CallE(Mark(nA, 1, FunctionE(<<nX>>, <<ExpressionS(IdentE(nX))>>)),
                        <<IdentE(nA)>>))>>

ArgumentsInOrderProgram ==
    <<ExpressionS(CallE(FunctionE(<<nX, nY>>, <<ExpressionS(IdentE(nY))>>),
                        <<Mark(nA, 1, IntE(1)), IdentE(nA)>>))>>

OrderPrograms ==
    {InfixOrderProgram(l, r) : l \in BOOLEAN, r \in BOOLEAN}
    \cup {CallOrderProgram(c, k, full) :
            c \in BOOLEAN, k \in 0..Len(MarkNames), full \in BOOLEAN}
    \cup {ReadAfterProgram, ReadBeforeProgram, CalleeFirstProgram,
          ArgumentsInOrderProgram}

AstPrograms ==
    OrderPrograms \cup BranchPrograms \cup FramePrograms \cup ReturnValuePrograms \cup LetPrograms \cup TruthPrograms \cup PrintedPrograms \cup ReturnPrograms \cup ErrorPrograms \cup CallErrorPrograms \cup ArityPrograms
    \cup KindPrograms \cup ArithmeticPrograms \cup AdderPrograms \cup SharingPrograms

(***************************************************************************)
(* The driver: Lexer::new on a text, Parser::parse_program on its tokens,   *)
(* Evaluator::evaluate on a new Environment (test_evaluate in              *)
(* src/src/evaluator.rs), or evaluate on Programs the caller built.        *)
(***************************************************************************)
NoResult == [kind |-> "None"]

Init ==
    /\ overflow_checks \in BOOLEAN
    /\ env = Environment_new
    /\ result = NoResult
    /\ trace = <<>>
    /\ round_trip = <<>>
    /\ session = <<>>
    /\ parse_result = NoResult
    /\ \/ /\ pc = "source"
          /\ source \in SourceInputs
          /\ tokens = <<>>
          /\ program = <<>>
          /\ pending = <<>>
       \/ /\ pc = "lexed"
          /\ source = <<>>
          /\ tokens \in TokenInputs
          /\ program = <<>>
          /\ pending = <<>>
       \/ /\ pc = "parsed"
          /\ source = <<>>
          /\ tokens = <<>>
          /\ program \in AstPrograms
          /\ pending = <<>>
       \/ /\ pc = "parsed"
          /\ source = <<>>
          /\ tokens = <<>>
          /\ \E programs \in Sessions \cup FailedLetSessions :
                /\ program = Head(programs)
                /\ pending = Tail(programs)

\* program.to_string(), once: the text is handed to a new Lexer and Parser
Display ==
    /\ pc = "parsed"
    /\ round_trip = <<>>
    /\ source' = Program_to_string(program)
    /\ round_trip' = <<program>>
    /\ pc' = "source"
    /\ UNCHANGED <<tokens, program, parse_result, env, result, trace, overflow_checks,
                   pending, session>>

Lex ==
    /\ pc = "source"
    /\ tokens' = token_stream(source, Lexer_new)
    /\ pc' = "lexed"
    /\ UNCHANGED <<source, program, parse_result, env, result, trace, overflow_checks,
                   round_trip, pending, session>>

Parse ==
    /\ pc = "lexed"
    /\ \E r \in {parse_program(tokens)} :
          /\ parse_result' = r
          /\ program' = IF r.ok THEN r.val ELSE <<>>
          /\ pc' = IF r.ok THEN "parsed" ELSE "parse_error"
    /\ UNCHANGED <<source, tokens, env, result, trace, overflow_checks, round_trip,
                   pending, session>>

Evaluate ==
    /\ pc = "parsed"
    /\ \E r \in {evaluate(program, env)} :
          /\ result' = r.obj
          /\ env' = r.env
          /\ trace' = r.tr
    /\ session' = Append(session, program)
    /\ pc' = "done"
    /\ UNCHANGED <<source, tokens, program, parse_result, overflow_checks, round_trip,
                   pending>>

\* the caller hands its next Program to a new Evaluator on the same Environment;
\* a panic has ended the process
NextProgram ==
    /\ pc = "done"
    /\ pending # <<>>
    /\ ~IsPanic(result)
    /\ program' = Head(pending)
    /\ pending' = Tail(pending)
    /\ result' = NoResult
    /\ trace' = <<>>
    /\ pc' = "parsed"
    /\ UNCHANGED <<source, tokens, parse_result, env, overflow_checks, round_trip,
                   session>>

Next == Display \/ Lex \/ Parse \/ Evaluate \/ NextProgram

Spec == Init /\ [][Next]_vars

(***************************************************************************)
(* Claims                                                                  *)
(***************************************************************************)
Parsed == pc \in {"parsed", "parse_error", "done"}

\* the precedence table of the claim: equality < relational < additive < multiplicative
BinaryRank(tok) ==
    CASE tok \in {tEqual, tNotEqual} -> 1
      [] tok \in {tLessThan, tGreaterThan} -> 2
      [] tok \in {tPlus, tMinus} -> 3
      [] tok \in {tAster, tSlash} -> 4

\* C1: parse_program on `x op1 y op2 z` yields Infix(Infix(x, op1, y), op2, z) when
\* the precedence of op2 is at most that of op1 and Infix(x, op1, Infix(y, op2, z))
\* when it is greater, and on `p x op y` with p a prefix operator it yields
\* Infix(Prefix(p, x), op, y).
C1_Precedence ==
    Parsed =>
        /\ \A t \in OperandTriples, o1 \in BinaryOperatorTokens,
              o2 \in BinaryOperatorTokens :
                tokens = <<t[1].tok, o1, t[2].tok, o2, t[3].tok>> =>
                    /\ parse_result.ok
                    /\ parse_result.val =
                        <<ExpressionS(
                            IF BinaryRank(o2) <= BinaryRank(o1)
                            THEN InfixE(InfixE(t[1].expr, o1.literal, t[2].expr),
                                        o2.literal, t[3].expr)
                            ELSE InfixE(t[1].expr, o1.literal,
                                        InfixE(t[2].expr, o2.literal, t[3].expr)))>>
        /\ \A p \in PrefixOperatorTokens, t \in OperandTriples,
              o \in BinaryOperatorTokens :
                tokens = <<p, t[1].tok, o, t[2].tok>> =>
                    /\ parse_result.ok
                    /\ parse_result.val =
                        <<ExpressionS(InfixE(PrefixE(p.literal, t[1].expr),
                                             o.literal, t[2].expr))>>

\* `a + b * c` was parsed to (a + (b * c)) and `a * b + c` would nest the other way
C1_Witness ==
    /\ pc = "parsed"
    /\ tokens = <<opA.tok, tPlus, opB.tok, tAster, opC.tok>>
    /\ program = <<ExpressionS(InfixE(opA.expr, <<"+">>,
                                      InfixE(opB.expr, <<"*">>, opC.expr)))>>

\* C2: on `a + add(args) + d` the parser produces the single statement
\* Infix(Infix(a, +, Call(add, args)), +, d).
C2_CallBindsTightest ==
    Parsed =>
        \A args \in ArgumentLists :
            tokens = CallChain(args) =>
                /\ parse_result.ok
                /\ parse_result.val =
                    <<ExpressionS(InfixE(InfixE(opA.expr, <<"+">>,
                                                CallE(IdentE(<<"a", "d", "d">>),
                                                      args.exprs)),
                                         <<"+">>, IdentE(<<"d">>)))>>

Done == pc = "done"

Events == 1..Len(trace)

\* the number of function bodies event i lies in
Depth(i) ==
    Cardinality({j \in 1..(i - 1) : trace[j].ev = "call"})
    - Cardinality({j \in 1..(i - 1) : trace[j].ev = "ret"})

\* the event that ends the program or function body event i lies in: the ret of
\* the call it lies in, or the end of the trace
BodyEnd(i) ==
    LET closing == {j \in (i + 1)..Len(trace) :
                        trace[j].ev = "ret" /\ Depth(j) = Depth(i) /\ Depth(i) > 0}
    IN  IF closing = {} THEN Len(trace) + 1
        ELSE CHOOSE j \in closing : \A k \in closing : j <= k

\* the value the program or function body event i lies in ended with
BodyValue(i) == IF BodyEnd(i) > Len(trace) THEN result ELSE trace[BodyEnd(i)].obj

ReturnExecuted(i) == trace[i].ev = "exit" /\ trace[i].obj.kind = "Return"

\* C3: once a return statement has executed, at any block-nesting depth, the
\* enclosing program or function body ends with the returned value and enters no
\* further statement.
C3_ReturnEndsBody ==
    Done =>
        \A i \in Events :
            ReturnExecuted(i) =>
                /\ BodyValue(i) = trace[i].obj.obj
                /\ \A j \in (i + 1)..(BodyEnd(i) - 1) : trace[j].ev # "enter"

ErrorProduced(i) == trace[i].ev = "exit" /\ trace[i].obj.kind = "Error"

\* C4: when a statement evaluates to an error, at any nesting depth, no later
\* statement is entered, every enclosing statement and call yields that same
\* error, and it is the result of evaluate.
C4_ErrorStopsEvaluation ==
    Done =>
        \A i \in Events :
            ErrorProduced(i) =>
                /\ result = trace[i].obj
                /\ \A j \in (i + 1)..Len(trace) :
                        /\ trace[j].ev \in {"exit", "ret"}
                        /\ trace[j].obj = trace[i].obj

FoobarNotFound == ErrorO(<<"identifier not found: ">> \o nFoobar)

\* C5: when an argument of a call evaluates to an error, the call yields that
\* error, the function body is not entered, and no parameter is ever bound to an
\* error value.
C5_ArgumentErrorEndsCall ==
    Done =>
        /\ \A i \in Events :
                trace[i].ev = "call" =>
                    \A n \in DOMAIN trace[i].env.store :
                        trace[i].env.store[n].kind # "Error"
        /\ (program \in CallErrorPrograms =>
                /\ result = FoobarNotFound
                /\ \A i \in Events : trace[i].ev # "call")

\* C6: an infix operator applied to two values of different kinds, among Int,
\* Boolean, Null and Function, yields the error value "type mismatch: ...".
C6_TypeMismatchIsError ==
    Done =>
        \A l \in ValueKinds, r \in ValueKinds, op \in InfixOperators :
            (l # r /\ program = InfixProgram(ValueOfKind(l), op, ValueOfKind(r))) =>
                /\ result.kind = "Error"
                /\ result.msg[1] = "type mismatch: "

\* C7: a call with a number of arguments different from the number of parameters
\* yields an error value.
C7_ArityMismatchIsError ==
    Done =>
        \A m \in 0..MaxParams, n \in 0..MaxParams :
            (m # n /\ program = CallProgram(m, IntArguments(n))) =>
                result.kind = "Error"

\* C8: evaluation of a well-typed program (Int operands for the Int operators,
\* every i64 value and a zero divisor included, calls of matching arity) returns
\* an Object and does not panic.
C8_NoPanicOnWellTyped ==
    (/\ Done
     /\ \/ program \in ArithmeticPrograms
        \/ \E m \in 0..MaxParams : program = CallProgram(m, IntArguments(m)))
    => ~IsPanic(result)

\* the x a closure of the adder inputs was made with
AdderX(closure, a1, a2) == IF closure = nAddTwo THEN a1 ELSE a2

\* the value statement k of the program was left with
StatementValues(k) ==
    {trace[i].obj : i \in {j \in Events : trace[j].ev = "exit" /\ trace[j].stmt = program[k]
                                           /\ Depth(j) = 0}}

C10_EnvironmentIsShared ==
    Done =>
        /\ \A v \in AdderValues : program = LateBindingProgram(v) => result = IntO(v)
        /\ \A v0 \in AdderValues, v \in AdderArguments :
                program = RebindingProgram(v0, v) => result = IntO(v)
        /\ \A k \in 0..MaxRecursion :
                program = RecursionProgram(k) =>
                    result # ErrorO(<<"identifier not found: ">> \o nF)

RECURSIVE SumOf(_)
SumOf(vs) == IF vs = <<>> THEN 0 ELSE Head(vs) + SumOf(Tail(vs))

\* the value the name is left with by LetChain(vs, rebinding)
LastWrite(vs, rebinding) == IF rebinding THEN SumOf(vs) ELSE vs[Len(vs)]

\* C11: after a sequence of `let` statements on one name in one scope (the
\* program or a function body), the name evaluates to the value of the most recent
\* `let`, the right-hand side of a rebinding sees the previous value, and the
\* program's environment holds that value for the name.
C11_LetLastWriteWins ==
    Done =>
        /\ \A vs \in LetSequences, rebinding \in BOOLEAN :
                /\ program = LetProgram(vs, rebinding) =>
                        /\ result = IntO(LastWrite(vs, rebinding))
                        /\ get(env, nA) = <<IntO(LastWrite(vs, rebinding))>>
                /\ program = ScopedLetProgram(vs, rebinding) =>
                        result = IntO(LastWrite(vs, rebinding))
        /\ tokens = LetExampleTokens => result = IntO(6)

\* `let a = 5; let a = a + 1; a;` was lexed, parsed and evaluated to 6
C11_Witness ==
    /\ Done
    /\ tokens = LetExampleTokens
    /\ program = LetProgram(<<5, 1>>, TRUE)
    /\ result = IntO(6)
    /\ get(env, nA) = <<IntO(6)>>

Entered(stmt) == \E i \in Events : trace[i] = EnterEvent(stmt)

\* C12: for every non-error value v, `if (v) { A } else { B }` evaluates A and
\* not B when v is neither false nor Null and B and not A otherwise, `!v` is the
\* Boolean opposite of that, and `if (v) { A }` with such a falsy v is Null.
C12_TruthinessIsOneRule ==
    Done =>
        \A c \in Conditions :
            /\ program = IfElseProgram(c.expr) =>
                    /\ result = IF c.truthy THEN IntO(10) ELSE IntO(20)
                    /\ Entered(ThenStatement) <=> c.truthy
                    /\ Entered(ElseStatement) <=> ~c.truthy
            /\ program = IfProgram(c.expr) =>
                    /\ result = IF c.truthy THEN IntO(10) ELSE NullO
                    /\ Entered(ThenStatement) <=> c.truthy
            /\ program = BangProgram(c.expr) => result = BooleanO(~c.truthy)

\* `if (0) { 10 } else { 20 }` took the consequence: 0 is truthy
C12_Witness ==
    /\ Done
    /\ program = IfElseProgram(IntE(0))
    /\ result = IntO(10)
    /\ Entered(ThenStatement)

\* an expression of identifiers, integer literals, booleans, prefix `!` and `-`
\* and the eight binary operators
RECURSIVE IsOperatorExpression(_)
IsOperatorExpression(e) ==
    CASE e.kind = "Ident" -> look_up_ident(e.name) = "Ident"
      [] e.kind = "Int" -> e.int >= 0
      [] e.kind = "Boolean" -> TRUE
      [] e.kind = "Prefix" -> e.op \in PrefixLiterals /\ IsOperatorExpression(e.right)
      [] e.kind = "Infix" ->
            /\ e.op \in InfixOperators
            /\ IsOperatorExpression(e.left)
            /\ IsOperatorExpression(e.right)
      [] OTHER -> FALSE

Reparsed == pc \in {"parsed", "parse_error", "done"} /\ round_trip # <<>>

\* C13: when the text of an expression of identifiers, integer literals,
\* booleans, prefix and binary operators is lexed and parsed, the parse succeeds
\* and yields that same expression.
C13_PrintParseRoundTrip ==
    (/\ Reparsed
     /\ Len(round_trip[1]) = 1
     /\ round_trip[1][1].kind = "Expression"
     /\ IsOperatorExpression(round_trip[1][1].expr))
    => (parse_result.ok /\ parse_result.val = round_trip[1])

\* ((a + b) * c) was printed with its parentheses and parsed back to itself
C13_Witness ==
    /\ pc = "parsed"
    /\ round_trip = <<<<ExpressionS(InfixE(InfixE(opA.expr, <<"+">>, opB.expr),
                                           <<"*">>, opC.expr))>>>>
    /\ source = <<"(", "(", "a", " ", "+", " ", "b", ")", " ", "*", " ", "c", ")", "\n">>
    /\ program = round_trip[1]

\* the top-level lets executed by the Programs of a session, in order
RECURSIVE ExecutedLets(_)
ExecutedLets(programs) ==
    IF programs = <<>> THEN <<>>
    ELSE (CHOOSE i \in SessionInputs : i.program = Head(programs)).lets
         \o ExecutedLets(Tail(programs))

\* what a lookup of name finds after lets: the value of the last let of the name
RECURSIVE LastLet(_, _)
LastLet(lets, name) ==
    IF lets = <<>> THEN <<>>
    ELSE IF lets[Len(lets)][1] = name THEN <<IntO(lets[Len(lets)][2])>>
    ELSE LastLet(SubSeq(lets, 1, Len(lets) - 1), name)

InSession == session # <<>> /\ \A i \in 1..Len(session) : session[i] \in SessionPrograms

\* C14: after Programs have been evaluated one after the other on one
\* Environment, a lookup of a name gives the value of the most recently executed
\* top-level `let` of the name over all of them, lets executed before an error
\* ended a Program included, and nothing when no such let was executed.
C14_BindingsPersist ==
    (Done /\ InSession) =>
        \A name \in {nA, nB} : get(env, name) = LastLet(ExecutedLets(session), name)

\* after `let a = 2; let b = 5;` and then `let b = 2; foobar; let a = 3;`, which
\* ended in the error, a is 2 and b is 2
C14_Witness ==
    /\ Done
    /\ session = <<<<LetS(IdentE(nA), IntE(2)), LetS(IdentE(nB), IntE(5))>>,
                   <<LetS(IdentE(nB), IntE(2)), ErrorStatement, LetS(IdentE(nA), IntE(3))>>>>
    /\ result = FoobarNotFound
    /\ get(env, nA) = <<IntO(2)>>
    /\ get(env, nB) = <<IntO(2)>>

\* no value stored in the environment, in the environments it encloses or in the
\* environments its functions captured is a Return
RECURSIVE StoresNoReturn(_)
StoresNoReturn(e) ==
    /\ \A n \in DOMAIN e.store :
            /\ e.store[n].kind # "Return"
            /\ e.store[n].kind = "Function" => StoresNoReturn(e.store[n].environment)
    /\ e.outer # <<>> => StoresNoReturn(e.outer[1])

\* C15: the value evaluate returns, the value of the expression of every
\* expression statement and let, the result of every call, and every value
\* stored in an environment or bound to a parameter is not a Return, and the
\* Return a return statement yields wraps a value that is not a Return.
C15_ReturnIsNotObservable ==
    /\ result.kind # "Return"
    /\ StoresNoReturn(env)
    /\ \A i \in Events :
            /\ (trace[i].ev = "exit" /\ trace[i].stmt.kind # "Return") =>
                    trace[i].obj.kind # "Return"
            /\ (trace[i].ev = "exit" /\ trace[i].obj.kind = "Return") =>
                    trace[i].obj.obj.kind # "Return"
            /\ trace[i].ev = "ret" => trace[i].obj.kind # "Return"
            /\ trace[i].ev = "call" => StoresNoReturn(trace[i].env)

\* `let a = if (true) { return 10; 999; let b = 1; };`: the return statement
\* yielded Return(10) and a was bound to the Int 10
C15_Witness ==
    /\ Done
    /\ program = InContext("let", ReturnBody(0))
    /\ \E i \in Events : trace[i] = ExitEvent(ReturnS(IntE(10)), ReturnO(IntO(10)))
    /\ get(env, nA) = <<IntO(10)>>

\* C16: parse_program accepts a function literal exactly when it is `fn`, `(`,
\* zero or more comma-separated Ident tokens, `)`, `{` and a body, and the
\* parameters of the Function it yields are the literals of those Ident tokens.
C16_FunctionLiteralIsChecked ==
    Parsed =>
        \A i \in FunctionInputs :
            tokens = i.toks =>
                IF i.wellformed
                THEN /\ parse_result.ok
                     /\ parse_result.val =
                            <<ExpressionS(FunctionE(
                                [k \in 1..Len(i.parameters) |-> i.parameters[k].literal],
                                <<ExpressionS(IdentE(<<"x">>))>>))>>
                ELSE ~parse_result.ok

\* C17: when a required token is missing, in a `let`, an `if`, a function literal
\* or a parenthesised group, parse_program returns UnexpectedToken with the kind
\* that was required and, as found, the token that stands at that position.
C17_FoundIsTheOffendingToken ==
    Parsed =>
        \A i \in UnexpectedInputs :
            tokens = i.toks =>
                /\ ~parse_result.ok
                /\ parse_result.err = UnexpectedToken(i.expected, TokenAt(i.toks, i.at))

\* the caller's environment of FrameProgram(v, arg) when f is defined
FrameCallerEnv(v) ==
    set(set(Environment_new, nX, IntO(v)), nY, IntO(2))

\* C18: a call binds its parameters in a fresh environment chained to the
\* captured one and the lets of the body go there too; the call yields the value
\* computed from them, and after it the caller's names have the values they had
\* before, the callee's locals are not bound, and a second call of the function
\* does not see the locals of the first.
C18_CallLeavesCallerEnvironment ==
    Done =>
        /\ \A v \in FrameValues, arg \in FrameArguments :
                program = FrameProgram(v, arg) =>
                    /\ \A i \in Events :
                            trace[i].ev = "call" =>
                                trace[i].env =
                                    [store |-> set(Environment_new, nX, IntO(arg)).store,
                                     outer |-> <<FrameCallerEnv(v)>>]
                    /\ StatementValues(4) = {IntO(arg)}
                    /\ result = IntO(v)
                    /\ env = set(FrameCallerEnv(v), nF,
                                 FunctionO(FrameFunction.parameters, FrameFunction.body,
                                           FrameCallerEnv(v)))
        /\ program = LocalsProgram =>
                /\ StatementValues(2) = {IntO(1)}
                /\ result = ErrorO(<<"identifier not found: ">> \o nZ)
                /\ DOMAIN env.store = {nG}

\* let x = 1; let y = 2; let f = fn(x) { .. }; f(5); x;: the call gave 5 from
\* its parameter and afterwards x is 1, y is 2 and z is not bound
C18_Witness ==
    /\ Done
    /\ program = FrameProgram(1, 5)
    /\ StatementValues(4) = {IntO(5)}
    /\ get(env, nX) = <<IntO(1)>>
    /\ get(env, nY) = <<IntO(2)>>
    /\ get(env, nZ) = <<>>

\* C19: after `if (c) { let a = 1; } else { let b = 2; }`, in a program or in a
\* function body, the statement that follows finds the name bound in the branch
\* taken and does not find the name of the branch not taken; at program level the
\* environment holds the one binding; a let nested in several blocks is visible
\* after the outermost.
C19_BranchSharesEnvironment ==
    Done =>
        /\ \A c \in BOOLEAN, name \in {nA, nB}, called \in BOOLEAN :
                program = BranchProgram(c, name, called) =>
                    /\ result = IF c /\ name = nA THEN IntO(1)
                                ELSE IF ~c /\ name = nB THEN IntO(2)
                                ELSE ErrorO(<<"identifier not found: ">> \o name)
                    /\ ~called => DOMAIN env.store = IF c THEN {nA} ELSE {nB}
        /\ \A d \in 1..MaxDepth :
                program = NestedLetProgram(d) =>
                    (result = IntO(1) /\ get(env, nA) = <<IntO(1)>>)
        /\ tokens = IfLetExampleTokens => result = IntO(1)

\* `if (true) { let a = 1; } a;` was parsed and evaluated to 1, and a is bound
\* in the program's environment
C19_Witness ==
    /\ Done
    /\ tokens = IfLetExampleTokens
    /\ program = <<ExpressionS(IfE(BooleanE(TRUE), <<LetS(IdentE(nA), IntE(1))>>, <<>>)),
                   ExpressionS(IdentE(nA))>>
    /\ result = IntO(1)
    /\ get(env, nA) = <<IntO(1)>>

\* the place in the trace where the marked sub-expression was evaluated
MarkAt(name, v) == CHOOSE i \in Events : trace[i] = EnterEvent(MarkStatement(name, v))

Marked(name, v) == Entered(MarkStatement(name, v))

\* C20: in `l + r` the left operand is evaluated before the right, and the right
\* is not evaluated when the left is an error; in a call the callee is evaluated
\* before the arguments and the arguments left to right, and after an error in the
\* callee or in argument k no later argument is evaluated: its statements are never
\* entered and its binding is not in the environment.
C20_OrderAndShortCircuit ==
    Done =>
        /\ \A l \in BOOLEAN, r \in BOOLEAN :
                program = InfixOrderProgram(l, r) =>
                    /\ Marked(nA, 1)
                    /\ Marked(nB, 2) <=> ~l
                    /\ ~l => MarkAt(nA, 1) < MarkAt(nB, 2)
                    /\ DOMAIN env.store = IF l THEN {nA} ELSE {nA, nB}
                    /\ result = IF l \/ r THEN FoobarNotFound ELSE IntO(3)
        /\ program = ReadAfterProgram => result = IntO(2)
        /\ program = ReadBeforeProgram =>
                /\ result = ErrorO(<<"identifier not found: ">> \o nA)
                /\ ~Marked(nA, 1)
                /\ DOMAIN env.store = {}
        /\ \A c \in BOOLEAN, k \in 0..Len(MarkNames), full \in BOOLEAN :
                program = CallOrderProgram(c, k, full) =>
                    LET evaluated == IF c THEN {}
                                     ELSE {i \in DOMAIN MarkNames : k = 0 \/ i <= k}
                    IN  /\ Marked(nG, 9)
                        /\ \A i \in DOMAIN MarkNames :
                                Marked(MarkNames[i], i) <=> i \in evaluated
                        /\ \A i \in evaluated :
                                /\ MarkAt(nG, 9) < MarkAt(MarkNames[i], i)
                                /\ \A j \in evaluated :
                                        i < j => MarkAt(MarkNames[i], i)
                                                    < MarkAt(MarkNames[j], j)
                        /\ ~IsPanic(result) =>
                                DOMAIN env.store
                                    = {nG} \cup {MarkNames[i] : i \in evaluated}
                        /\ c => result = FoobarNotFound
        /\ program = CalleeFirstProgram => result = IntO(1)
        /\ program = ArgumentsInOrderProgram => result = IntO(1)

\* a call whose first argument failed after the callee and that argument were
\* evaluated: a is bound, b and z are not
C20_Witness ==
    /\ Done
    /\ program = CallOrderProgram(FALSE, 1, FALSE)
    /\ Marked(nG, 9) /\ Marked(nA, 1)
    /\ ~Marked(nB, 2) /\ ~Marked(nZ, 3)
    /\ DOMAIN env.store = {nG, nA}

\* the parser has run on tokens
ParserReturned == Parsed /\ parse_result # NoResult

\* the positions cur_token can be at: the tokens and the Eof after them
Positions == 1..(Len(tokens) + 1)

\* the first token of kind Eof the lexer returned
FirstEof ==
    CHOOSE i \in Positions :
        /\ TokenAt(tokens, i).kind = "Eof"
        /\ \A j \in 1..(i - 1) : TokenAt(tokens, j).kind # "Eof"

\* wherever the statement loop of parse_program or of parse_block_statement
\* stands, one iteration leaves the parser at a later token
StatementLoopsConsume ==
    \A pos \in Positions :
        (~cur_token_is(tokens, pos, "Eof") /\ parse_statement(tokens, pos).ok)
            => parse_statement(tokens, pos).pos + 1 > pos

\* wherever the infix loop of parse_expression stands and for every precedence,
\* an iteration takes an operator arm and leaves the parser at a later token
InfixLoopConsumes ==
    \A pos \in Positions, precedence \in Lowest..Call :
        (/\ ~peek_token_is(tokens, pos, "Semicolon")
         /\ precedence < peek_precedence(tokens, pos))
            => /\ IsInfixOperator(peek_token(tokens, pos).kind)
               /\ parse_infix_expression(tokens, pos + 1, IntE(0)).ok
                    => parse_infix_expression(tokens, pos + 1, IntE(0)).pos > pos

\* the parse came to an end
ParseReturns == ParserReturned => (parse_result.ok \/ parse_result.err # ParserHang)

\* a statement that fails ends the loop it is in with its own error, wherever
\* the loop stands: no later statement is tried
FirstErrorEndsParse ==
    \A pos \in Positions :
        (~cur_token_is(tokens, pos, "Eof") /\ ~parse_statement(tokens, pos).ok)
            => /\ parse_program_loop(tokens, pos, <<>>) = parse_statement(tokens, pos)
               /\ ~cur_token_is(tokens, pos, "Rbrace")
                    => parse_block_statement_loop(tokens, pos, <<>>)
                            = parse_statement(tokens, pos)

\* from the first Eof that was the current token on, the current token has been
\* Eof up to where the parser returned
EofIsStable ==
    ParserReturned =>
        \A pos \in FirstEof..parse_result.pos : TokenAt(tokens, pos).kind = "Eof"

\* C21: parse_program returns on every token stream: each iteration of the
\* statement loops and of the infix loop leaves the parser at a later token, a
\* failed statement ends the parse with its error, and once the current token is
\* Eof every token the parser moves to before it returns is Eof.
C21_ParseTerminatesAtEof ==
    /\ StatementLoopsConsume
    /\ InfixLoopConsumes
    /\ ParseReturns
    /\ FirstErrorEndsParse
    /\ EofIsStable

\* the Program of a session that starts with a failed let has been evaluated
\* (Len(session) = 1), and then the Program that reads a (Len(session) = 2)
AfterFailedLet(prior, value, nested) ==
    /\ Done
    /\ session # <<>>
    /\ session[1] = FailedLetProgram(prior, value, nested)

\* what a lookup of a gave before the failed let
Before(prior) == IF prior THEN <<IntO(5)>> ELSE <<>>

ReadOf(found) ==
    IF found = <<>> THEN ErrorO(<<"identifier not found: ">> \o nA) ELSE found[1]

\* the failed let ended its Program with an Error, nothing after it ran, and a
\* is bound as found says, for the next Program as well
FailedLetLeaves(found) ==
    /\ Len(session) = 1 =>
            /\ result.kind = "Error"
            /\ get(env, nA) = found
            /\ get(env, nB) = <<>>
    /\ Len(session) = 2 => result = ReadOf(found)

\* C22 as stated: after a failed `let a = e`, whatever e is, a lookup of a gives
\* what it gave before the statement and the result of the statement is the error.
C22_FailedLetKeepsBinding ==
    \A prior \in BOOLEAN, nested \in BOOLEAN,
       value \in FailingValues \cup {RebindingValue} :
        AfterFailedLet(prior, value, nested) => FailedLetLeaves(Before(prior))

\* C22 amended: a failed `let a = e` binds nothing itself and its result is the
\* error: a lookup of a gives what it gave before when e executes no let of a, and
\* what the let of a inside e bound when e executes one.
C22_FailedLetSetsNothing ==
    \A prior \in BOOLEAN, nested \in BOOLEAN :
        /\ \A value \in FailingValues :
                AfterFailedLet(prior, value, nested) => FailedLetLeaves(Before(prior))
        /\ AfterFailedLet(prior, RebindingValue, nested) => FailedLetLeaves(<<IntO(7)>>)

\* `let a = 5; let a = foobar; let b = 1;` ended in the error, and the next
\* Program read a as 5
C22_Witness ==
    /\ AfterFailedLet(TRUE, IdentE(nFoobar), FALSE)
    /\ session = <<FailedLetProgram(TRUE, IdentE(nFoobar), FALSE), ReadProgram>>
    /\ result = IntO(5)
    /\ get(env, nB) = <<>>

\* the positions the lexer is at when next_token is called, call after call, up
\* to the first call past the end of the input
RECURSIVE CallPositions(_, _)
CallPositions(input, position) ==
    {position}
    \cup (IF position > Len(input) THEN {}
          ELSE CallPositions(input, next_token(input, position).position))

\* tokens is what the lexer returned for source
LexedSource == pc # "source" /\ tokens = token_stream(source, Lexer_new)

\* the call of next_token at position returns Eof
EofAt(position) == next_token(source, position).tok.kind = "Eof"

\* C23: for every input, a call of next_token returns Eof only when nothing but
\* whitespace is left to read, every call after it returns Eof as well, and a
\* program that parse_program returns was parsed from all the tokens of the input.
C23_EofOnlyAtEndOfInput ==
    LexedSource =>
        /\ \A p \in CallPositions(source, Lexer_new) :
                EofAt(p) =>
                    /\ skip_whitespace(source, p) > Len(source)
                    /\ \A q \in CallPositions(source, Lexer_new) : q >= p => EofAt(q)
        /\ (ParserReturned /\ parse_result.ok) =>
                \A i \in 1..Len(tokens) : tokens[i].kind # "Eof"

====
